---- MODULE Spec2Model ----
(***************************************************************************)
(* Client-side session / organization context and entity cache of the      *)
(* AI Writer PRO dashboard (frontend/src/store/auth.ts,                    *)
(* frontend/src/store/organization.ts, frontend/src/hooks/auth.ts and the  *)
(* React Query hooks of hooks/api.ts).                                     *)
(*                                                                         *)
(* JavaScript runs one callback at a time: every action below is the code  *)
(* of one handler between two awaits.  An asynchronous operation is a      *)
(* start action (up to its first await) and one completion action per      *)
(* outcome of the awaited call.  At most one instance of each operation is *)
(* in flight.                                                              *)
(***************************************************************************)
EXTENDS Integers, Naturals, Sequences, FiniteSets, TLC

\* ------------------------------------------------------------------ bounds
NumUsers == 2
NumOrgs == 2
\* content ids that detail queries are mounted for
NumContents == 1
\* query functions in flight at a time
MaxInflight == 1
\* style ids that style mutations and detail queries address
NumStyles == 1
\* contents the server can still create (ids after the existing ones)
NumGenerated == 1

\* reference articles each style has at the start
NumRefs == 1
\* files a user can select in the style form
NumFiles == 2
\* submits of one mounted style form
MaxSubmits == 2
\* redirects a client follows for one request
MaxRedirects == 3

Users == 1..NumUsers
Orgs == 1..NumOrgs
Styles == 1..NumStyles
\* contents that exist on the server from the start
Contents == 1..NumContents
\* ids the server gives to generated contents
NewContents == (NumContents + 1)..(NumContents + NumGenerated)
AllContents == Contents \cup NewContents
\* reference articles (uploaded files) of a style
Refs == 1..NumRefs

\* ------------------------------------------------------------------ values
\* null of `User | null`
NoUser == 0
\* null of `string | null` (error)
NoError == "none"
\* An Organization object: its id and a revision of its mutable attributes
\* (name, settings) as last written by the server.
Revs == {0, 1}
Organization(i, r) == [id |-> i, rev |-> r]
\* null of `Organization | null`
NoOrg == [id |-> 0, rev |-> 0]
OrgValues == {Organization(i, r) : i \in Orgs, r \in Revs}

\* updateOrganization not in flight
NoUpdate == [id |-> 0, rev |-> 0]

\* `error?.status` of a failure: an HTTP status, or NetworkError when the
\* error carries none (undefined)
NetworkError == 0
Statuses == {NetworkError, 399, 400, 499, 500}
\* null of `generateContentMutation.error`
NoStatus == -1

\* Form values of ContentGenerationForm.  brief is the length of the brief
\* text, temperature is counted in tenths; NaN is what valueAsNumber gives
\* for an input that holds no number (no other field value equals it).
NaN == -1000
defaultValues ==
  [brief |-> 0, style_profile_id |-> "", max_tokens |-> 2000,
   temperature |-> 7]

\* GeneratedContent.status, in the order it advances; "none" for a content
\* that does not exist
ContentStatuses == <<"draft", "generated", "edited", "published">>
Rank(st) ==
  IF st = "none" THEN 0
  ELSE CHOOSE i \in 1..Len(ContentStatuses) : ContentStatuses[i] = st

\* the prompts of the three AI actions of the content editor page (improve
\* the text, fix the mistakes, shorten the text); NoPrompt: none submitted
EditPrompts == {"improve", "fix", "shorten"}
NoPrompt == ""

\* analysis.confidence_score is a number in [0, 1], here in hundredths;
\* the two thresholds of the display are 0.8 and 0.6
ScoreScale == 100
HighConfidence == 80
MediumConfidence == 60
Scores == 0..ScoreScale
\* StyleAnalysis is not rendered
NoScore == -1

\* nothing logged by the content editor page yet
NoLog == [handler |-> "none", arg |-> NoPrompt]

\* no mutation settled yet
NoResult == [kind |-> "none", outcome |-> "none"]

\* no mutation in flight.  A mutation in flight is the hook it was started
\* from (kind), the organizationId and entity id the hook was called with,
\* the failures of its attempts so far and the data passed to mutate.
NoMutation ==
  [kind |-> "none", org |-> "", id |-> "", failureCount |-> 0,
   data |-> defaultValues]

\* StyleForm is not mounted
NoStyleForm == "unmounted"
\* the form's defaultValues when no initialData is given (StyleForm.tsx:42-46)
NoStyleValues ==
  [name |-> <<>>, description |-> "", reference_articles |-> <<>>]

\* a value that is undefined or null in the program
Undefined == <<"undefined">>
\* no request has reached the middleware
NoRequest ==
  [pathname |-> <<>>, access_token |-> Undefined,
   organization_id |-> Undefined, authorization |-> Undefined]
NoResponse ==
  [type |-> "none", pathname |-> <<>>, redirect |-> Undefined,
   headers |-> "none"]

VARIABLES
  \* ---- auth store (store/auth.ts)
  user, organization, isAuthenticated, isLoading, error,
  \* ---- authService persisted data (lib/auth, localStorage)
  token,        \* "none" | "valid" | "expired"
  orgData,      \* ORGANIZATION_DATA entry: NoOrg or an Organization
  \* ---- asynchronous operations in flight and what their caller observed
  loginPc, loginArg, loginResult,
  logoutPc, logoutResult, logoutServer,
  loggedOut,    \* a logout() has completed and no login succeeded since
  refreshPc, refreshResult,
  autoPc, autoResult,
  initPc, initResult,
  apiPc, api401s, apiRefreshes,
  tokenDead,    \* a refresh attempt failed and no new session began since
  \* ---- server
  serverRev,    \* revision of each organization's attributes on the server
  \* ---- organization store (store/organization.ts)
  currentOrganization, organizations,
  members,      \* the organization whose member list is held (0: []);
                \* no component calls loadMembers
  usageStats,   \* the organization whose statistics are held (0: null)
  orgLoading, orgError,
  loadOrgsPc, updateOrgPc, loadUsagePc,
  \* ---- React Query cache (hooks/api.ts)
  cache,        \* query key -> Absent or [status, origin]
  inflight,     \* query functions awaiting their response
  lateResponse, \* the last response stored was for another organization
                \* than the active one
  \* ---- server: generated contents
  serverContent, \* per organization and content id: "none" | "live" | "deleted"
  serverStatus,  \* per organization and content id: its status, or "none"
  styleRefs,     \* per organization and style: its reference articles
  \* ---- mutation hooks (hooks/api.ts)
  mutation,       \* the mutation in flight, or NoMutation
  mutationResult, \* what the caller of the last settled mutation observed
  \* ---- ContentGenerationForm on /dashboard/content/new
  formValues,     \* the values held by the form
  formErrors,     \* the last submit was rejected by the resolver
  genStatus,      \* generateContentMutation: "idle" | "pending" | "success" | "error"
  genError,       \* generateContentMutation.error (NoStatus: null)
  route,          \* 0: /dashboard/content/new; c: /dashboard/content/c
  requestsSent,   \* requests sent to the network for the last submit
  \* ---- ContentEditorPage on /dashboard/content/[id]
  consoleLog,     \* the last console.log of handleSave / handleAIAssist
  \* ---- StyleAnalysis (components/styles/StyleAnalysis.tsx)
  confidence_score,  \* analysis.confidence_score of the rendered analysis
  confidenceText,    \* class of the percentage (getConfidenceColor)
  confidenceBar,     \* class of the bar (getConfidenceBgColor)
  confidenceCaption, \* the caption under the bar
  \* ---- StyleForm (components/styles/StyleForm.tsx)
  styleId,         \* the styleId prop ("" on the new page), or NoStyleForm
  styleFormValues, \* the values held by the form
  styleFormErrors, \* fields the resolver reported an error for
  submitCount,     \* formState.submitCount: calls of handleSubmit
  onSubmitData,    \* the data onSubmit runs with
  stylePc,         \* where onSubmit awaits: "idle" | "uploading" |
                   \* "creating" | "updating"
  fileIds,         \* onSubmit's local fileIds
  styleLog,        \* the requests onSubmit has sent for the last submit,
                   \* each with its outcome
  styleFormResult, \* "none" | "success" (onSuccess was called) | "error"
                   \* (the catch block ran)
  \* ---- middleware (frontend/middleware)
  request,         \* the request the middleware last ran for
  response,        \* what it returned
  redirects        \* redirects followed since the client's own request

authVars == <<user, organization, isAuthenticated, isLoading, error>>
svcVars == <<token, orgData>>
loginVars == <<loginPc, loginArg, loginResult>>
logoutVars == <<logoutPc, logoutResult, logoutServer, loggedOut>>
refreshVars == <<refreshPc, refreshResult>>
autoVars == <<autoPc, autoResult>>
initVars == <<initPc, initResult>>
apiVars == <<apiPc, api401s, apiRefreshes>>

sessionOpVars == <<refreshVars, autoVars, initVars, apiVars, tokenDead>>
orgStoreVars == <<currentOrganization, organizations, members, usageStats,
                  orgLoading, orgError>>
orgOpVars == <<loadOrgsPc, updateOrgPc, loadUsagePc>>
cacheVars == <<cache, inflight, lateResponse>>
\* everything outside the auth store, authService and the auth operations
serverOther == <<serverStatus, styleRefs>>
mutationVars == <<serverContent, serverOther, mutation, mutationResult>>
formVars == <<formValues, formErrors, genStatus, genError, route, requestsSent>>
editorVars == <<consoleLog>>
displayVars ==
  <<confidence_score, confidenceText, confidenceBar, confidenceCaption>>
styleFormVars ==
  <<styleId, styleFormValues, styleFormErrors, submitCount, onSubmitData,
    stylePc, fileIds, styleLog, styleFormResult>>
middlewareVars == <<request, response, redirects>>
pageVars == <<editorVars, displayVars, styleFormVars, middlewareVars>>
workVars == <<mutationVars, formVars, pageVars>>
orgSide == <<serverRev, orgStoreVars, orgOpVars, cacheVars, workVars>>

vars == <<authVars, svcVars, loginVars, logoutVars, sessionOpVars, orgSide>>

\* ------------------------------------------------------------ authService
\* authService.isAuthenticated() && !authService.isTokenExpired()
HasLiveToken == token = "valid"

\* authService.clearAuthData(): removes the token and the organization data
clearAuthData == /\ token' = "none"
                 /\ orgData' = NoOrg

\* ------------------------------------------------------------- auth store
\* The object written by logout's finally block and by initialize's
\* anonymous branches.
ClearedAuthMutant ==
  /\ user' = NoUser
  /\ organization' = NoOrg
  /\ isAuthenticated' = isAuthenticated
  /\ isLoading' = FALSE
  /\ error' = NoError

ClearedAuth ==
  /\ user' = NoUser
  /\ organization' = NoOrg
  /\ isAuthenticated' = FALSE
  /\ isLoading' = FALSE
  /\ error' = NoError

Init ==
  /\ user = NoUser
  /\ organization = NoOrg
  /\ isAuthenticated = FALSE
  /\ isLoading = FALSE
  /\ error = NoError
  /\ token = "none"
  /\ orgData = NoOrg
  /\ loginPc = "idle" /\ loginArg = NoUser /\ loginResult = "none"
  /\ logoutPc = "idle" /\ logoutResult = "none" /\ logoutServer = "none"
  /\ loggedOut = FALSE
  /\ refreshPc = "idle" /\ refreshResult = "none"
  /\ autoPc = "idle" /\ autoResult = "none"
  /\ initPc = "idle" /\ initResult = "none"
  /\ apiPc = "idle" /\ api401s = 0 /\ apiRefreshes = 0
  /\ tokenDead = FALSE
  /\ serverRev = [o \in Orgs |-> 0]
  /\ currentOrganization = NoOrg
  /\ organizations = <<>>
  /\ members = 0
  /\ usageStats = 0
  /\ orgLoading = FALSE
  /\ orgError = NoError
  /\ loadOrgsPc = "idle"
  /\ updateOrgPc = NoUpdate
  /\ loadUsagePc = 0
  /\ cache = {}
  /\ inflight = {}
  /\ lateResponse = FALSE
  /\ serverContent =
       [o \in Orgs |->
          [c \in AllContents |-> IF c \in Contents THEN "live" ELSE "none"]]
  /\ serverStatus =
       [o \in Orgs |->
          [c \in AllContents |-> IF c \in Contents THEN "generated" ELSE "none"]]
  /\ styleRefs = [o \in Orgs |-> [s \in Styles |-> Refs]]
  /\ mutation = NoMutation
  /\ mutationResult = NoResult
  /\ formValues = defaultValues
  /\ formErrors = FALSE
  /\ genStatus = "idle"
  /\ genError = NoStatus
  /\ route = 0
  /\ requestsSent = 0
  /\ consoleLog = NoLog
  /\ confidence_score = NoScore
  /\ confidenceText = "" /\ confidenceBar = "" /\ confidenceCaption = ""
  /\ styleId = NoStyleForm
  /\ styleFormValues = NoStyleValues
  /\ styleFormErrors = {}
  /\ submitCount = 0
  /\ onSubmitData = NoStyleValues
  /\ stylePc = "idle"
  /\ fileIds = <<>>
  /\ styleLog = <<>>
  /\ styleFormResult = "none"
  /\ request = NoRequest
  /\ response = NoResponse
  /\ redirects = 0

\* login(email, password), up to `await authService.login(...)`
LoginStart(email) ==
  /\ loginPc = "idle"
  /\ isLoading' = TRUE
  /\ error' = NoError
  /\ loginPc' = "pending"
  /\ loginArg' = email
  /\ loginResult' = "none"
  /\ UNCHANGED <<user, organization, isAuthenticated>>
  /\ UNCHANGED <<svcVars, logoutVars, refreshVars, autoVars, initVars,
                 apiVars, tokenDead>>
  /\ UNCHANGED orgSide

\* authService.login resolved: the server answers with the account of the
\* email and one of its organizations; authService stored token and
\* organization data.
LoginOk(o) ==
  /\ loginPc = "pending"
  /\ user' = loginArg
  /\ organization' = Organization(o, serverRev[o])
  /\ isAuthenticated' = TRUE
  /\ isLoading' = FALSE
  /\ error' = NoError
  /\ token' = "valid"
  /\ orgData' = Organization(o, serverRev[o])
  /\ loginPc' = "idle"
  /\ loginResult' = "resolved"
  /\ tokenDead' = FALSE
  /\ apiPc' = "idle" /\ api401s' = 0 /\ apiRefreshes' = 0
  /\ loggedOut' = FALSE
  /\ UNCHANGED <<logoutPc, logoutResult, logoutServer>>
  /\ UNCHANGED <<loginArg, refreshVars, autoVars, initVars>>
  /\ UNCHANGED orgSide

\* authService.login rejected: the catch block, which rethrows.
LoginFailMutant ==
  /\ loginPc = "pending"
  /\ ClearedAuth
  /\ loginPc' = "idle"
  /\ loginResult' = "rejected"
  /\ UNCHANGED <<loginArg, svcVars, logoutVars, refreshVars, autoVars,
                 initVars, apiVars, tokenDead>>
  /\ UNCHANGED orgSide

LoginFail ==
  /\ loginPc = "pending"
  /\ isLoading' = FALSE
  /\ error' = "login"
  /\ loginPc' = "idle"
  /\ loginResult' = "rejected"
  /\ UNCHANGED <<user, organization, isAuthenticated>>
  /\ UNCHANGED <<loginArg, svcVars, logoutVars, refreshVars, autoVars,
                 initVars, apiVars, tokenDead>>
  /\ UNCHANGED orgSide

\* logout(), up to `await authService.logout()`.  A logout called while
\* another one is in flight joins it: both run the same finally block.
LogoutBegin ==
  /\ isLoading' = TRUE
  /\ logoutPc' = "pending"
  /\ logoutResult' = "none"
  /\ logoutServer' = "none"
  /\ UNCHANGED loggedOut

LogoutStart ==
  /\ logoutPc = "idle"
  /\ LogoutBegin
  /\ UNCHANGED <<user, organization, isAuthenticated, error>>
  /\ UNCHANGED <<svcVars, loginVars, refreshVars, autoVars, initVars,
                 apiVars, tokenDead>>
  /\ UNCHANGED orgSide

\* authService.logout() settled (resolved, or threw and was caught): the
\* finally block.  The service drops the token when the call succeeds; when
\* it throws the token is dropped or kept.
LogoutDoneMutant(threw) ==
  /\ logoutPc = "pending"
  /\ IF threw
       THEN /\ isLoading' = FALSE
            /\ UNCHANGED <<user, organization, isAuthenticated, error>>
            /\ logoutResult' = "rejected"
       ELSE /\ ClearedAuth
            /\ logoutResult' = "resolved"
  /\ IF threw THEN token' \in {token, "none"} ELSE token' = "none"
  /\ orgData' = IF token' = "none" THEN NoOrg ELSE orgData
  /\ logoutPc' = "idle"
  /\ logoutServer' = IF threw THEN "threw" ELSE "ok"
  /\ loggedOut' = TRUE
  /\ tokenDead' = FALSE
  /\ UNCHANGED <<loginVars, refreshVars, autoVars, initVars, apiVars>>
  /\ UNCHANGED orgSide

LogoutDone(threw) ==
  /\ logoutPc = "pending"
  /\ ClearedAuth
  /\ IF threw THEN token' \in {token, "none"} ELSE token' = "none"
  /\ orgData' = IF token' = "none" THEN NoOrg ELSE orgData
  /\ logoutPc' = "idle"
  /\ logoutResult' = "resolved"
  /\ logoutServer' = IF threw THEN "threw" ELSE "ok"
  /\ loggedOut' = TRUE
  /\ tokenDead' = FALSE
  /\ UNCHANGED <<loginVars, refreshVars, autoVars, initVars, apiVars>>
  /\ UNCHANGED orgSide

\* ---------------------------------------------------- 401 handling (api)
\* What the API client does when the refresh it started after a first 401
\* settles: it re-sends the request with the new token, or gives up.
OnRefreshSettled(ok) ==
  apiPc' = IF apiPc = "refreshing"
             THEN (IF ok THEN "retrying" ELSE "idle")
             ELSE apiPc

\* refreshToken(), up to `await authService.refreshToken()`
RefreshBegin ==
  /\ refreshPc' = "pending"
  /\ refreshResult' = "none"

RefreshStart ==
  /\ refreshPc = "idle"
  /\ apiPc = "idle"
  /\ RefreshBegin
  /\ UNCHANGED <<authVars, svcVars, loginVars, logoutVars, autoVars,
                 initVars, apiVars, tokenDead>>
  /\ UNCHANGED orgSide

\* authService.refreshToken() resolved: the new token is in localStorage.
RefreshOk ==
  /\ refreshPc = "pending"
  /\ token' = "valid"
  /\ refreshPc' = "idle"
  /\ refreshResult' = "resolved"
  /\ OnRefreshSettled(TRUE)
  /\ tokenDead' = FALSE
  /\ UNCHANGED <<authVars, orgData, loginVars, logoutVars, autoVars,
                 initVars, apiRefreshes, api401s>>
  /\ UNCHANGED orgSide

\* authService.refreshToken() rejected: get().logout() runs up to its
\* await (not awaited by refreshToken), then the error is rethrown.
RefreshFail ==
  /\ refreshPc = "pending"
  /\ refreshPc' = "idle"
  /\ refreshResult' = "rejected"
  /\ LogoutBegin
  /\ OnRefreshSettled(FALSE)
  /\ tokenDead' = TRUE
  /\ UNCHANGED <<user, organization, isAuthenticated, error>>
  /\ UNCHANGED <<svcVars, loginVars, autoVars, initVars, apiRefreshes,
                 api401s>>
  /\ UNCHANGED orgSide

\* --------------------------------------------- useAutoRefreshToken (hook)
\* checkAndRefreshToken, run at mount and every 5 minutes while
\* isAuthenticated, when authService.shouldRefreshToken() says so.
AutoCheck ==
  /\ isAuthenticated
  /\ token # "none"
  /\ autoPc = "idle"
  /\ autoPc' = "refreshing"
  /\ autoResult' = "none"
  /\ UNCHANGED <<authVars, svcVars, loginVars, logoutVars, refreshVars,
                 initVars, apiVars, tokenDead>>
  /\ UNCHANGED orgSide

AutoOk ==
  /\ autoPc = "refreshing"
  /\ token' = "valid"
  /\ autoPc' = "idle"
  /\ autoResult' = "ok"
  /\ tokenDead' = FALSE
  /\ UNCHANGED <<authVars, orgData, loginVars, logoutVars, refreshVars,
                 initVars, apiVars>>
  /\ UNCHANGED orgSide

\* the catch block: console.error only
AutoFail ==
  /\ autoPc = "refreshing"
  /\ autoPc' = "idle"
  /\ autoResult' = "failed"
  /\ tokenDead' = TRUE
  /\ UNCHANGED <<authVars, svcVars, loginVars, logoutVars, refreshVars,
                 initVars, apiVars>>
  /\ UNCHANGED orgSide

\* ------------------------------------------------------------- initialize
\* initialize() with no live token: the else branch, no await
InitAnonMutant ==
  /\ initPc = "idle"
  /\ ~HasLiveToken
  /\ UNCHANGED svcVars
  /\ ClearedAuth
  /\ initResult' = "anonymous"
  /\ tokenDead' = FALSE
  /\ UNCHANGED <<initPc, loginVars, logoutVars, refreshVars, autoVars,
                 apiVars>>
  /\ UNCHANGED orgSide

InitAnon ==
  /\ initPc = "idle"
  /\ ~HasLiveToken
  /\ clearAuthData
  /\ ClearedAuth
  /\ initResult' = "anonymous"
  /\ tokenDead' = FALSE
  /\ UNCHANGED <<initPc, loginVars, logoutVars, refreshVars, autoVars,
                 apiVars>>
  /\ UNCHANGED orgSide

\* initialize() with a live token, up to `await authService.getCurrentUser()`
InitFetch ==
  /\ initPc = "idle"
  /\ HasLiveToken
  /\ isLoading' = TRUE
  /\ initPc' = "fetching"
  /\ initResult' = "none"
  /\ UNCHANGED <<user, organization, isAuthenticated, error>>
  /\ UNCHANGED <<svcVars, loginVars, logoutVars, refreshVars, autoVars,
                 apiVars, tokenDead>>
  /\ UNCHANGED orgSide

\* getCurrentUser() resolved with the account u of the token
InitOk(u) ==
  /\ initPc = "fetching"
  /\ user' = u
  /\ organization' = orgData
  /\ isAuthenticated' = TRUE
  /\ isLoading' = FALSE
  /\ error' = NoError
  /\ initPc' = "idle"
  /\ initResult' = "authenticated"
  /\ UNCHANGED <<svcVars, loginVars, logoutVars, refreshVars, autoVars,
                 apiVars, tokenDead>>
  /\ UNCHANGED orgSide

\* getCurrentUser() rejected: the catch block
InitFailMutant ==
  /\ initPc = "fetching"
  /\ isAuthenticated' = TRUE
  /\ isLoading' = FALSE
  /\ error' = NoError
  /\ initPc' = "idle"
  /\ initResult' = "authenticated"
  /\ UNCHANGED <<user, organization>>
  /\ UNCHANGED <<svcVars, loginVars, logoutVars, refreshVars, autoVars,
                 apiVars, tokenDead>>
  /\ UNCHANGED orgSide

InitFail ==
  /\ initPc = "fetching"
  /\ clearAuthData
  /\ ClearedAuth
  /\ initPc' = "idle"
  /\ initResult' = "fetch_failed"
  /\ tokenDead' = FALSE
  /\ UNCHANGED <<loginVars, logoutVars, refreshVars, autoVars, apiVars>>
  /\ UNCHANGED orgSide

\* time passes: the persisted token reaches its expiry
TokenExpire ==
  /\ token = "valid"
  /\ token' = "expired"
  /\ UNCHANGED <<authVars, orgData, loginVars, logoutVars, refreshVars,
                 autoVars, initVars, apiVars, tokenDead>>
  /\ UNCHANGED orgSide

\* ---------------------------------------------------- 401 handling (api)
\* A background request of the session is answered 401 and no 401 is being
\* handled: refreshToken() is called once.
Api401First ==
  /\ isAuthenticated
  /\ apiPc = "idle"
  /\ api401s = 0
  /\ refreshPc = "idle"
  /\ RefreshBegin
  /\ apiPc' = "refreshing"
  /\ api401s' = 1
  /\ apiRefreshes' = apiRefreshes + 1
  /\ UNCHANGED <<authVars, svcVars, loginVars, logoutVars, autoVars,
                 initVars, tokenDead>>
  /\ UNCHANGED orgSide

\* The re-sent request is answered 401 again: logout() is forced.
Api401Second ==
  /\ apiPc = "retrying"
  /\ LogoutBegin
  /\ apiPc' = "idle"
  /\ api401s' = 2
  /\ UNCHANGED <<user, organization, isAuthenticated, error>>
  /\ UNCHANGED <<svcVars, loginVars, refreshVars, autoVars, initVars,
                 apiRefreshes, tokenDead>>
  /\ UNCHANGED orgSide

\* The re-sent request (or a later one) succeeds: the run of 401s ends.
ApiOk ==
  /\ \/ apiPc = "retrying"
     \/ apiPc = "idle" /\ api401s > 0 /\ isAuthenticated
  /\ apiPc' = "idle"
  /\ api401s' = 0
  /\ apiRefreshes' = 0
  /\ UNCHANGED <<authVars, svcVars, loginVars, logoutVars, refreshVars,
                 autoVars, initVars, tokenDead>>
  /\ UNCHANGED orgSide

\* ------------------------------------------------------ auth store, cont.
\* setOrganization(organization), called by switchOrganization of
\* useOrganizationContext when the new organization is not null;
\* authService.setOrganizationData stores it in localStorage.
SetOrganization(org) ==
  /\ organization' = org
  /\ orgData' = org
  /\ UNCHANGED <<user, isAuthenticated, isLoading, error, token>>
  /\ UNCHANGED <<loginVars, logoutVars, sessionOpVars, orgSide>>

\* ------------------------------------------------------ organization store
\* what the server returns for an organization
ServerOrg(o) == Organization(o, serverRev[o])

\* responses of GET /organizations: the organizations of the user, in the
\* order the server lists them
OrgLists ==
  {<<>>} \cup {<<ServerOrg(a)>> : a \in Orgs}
         \cup {<<ServerOrg(p[1]), ServerOrg(p[2])>> :
                 p \in {q \in Orgs \X Orgs : q[1] # q[2]}}

\* setCurrentOrganization(organization): the store and the
\* ORGANIZATION_DATA entry of localStorage
setCurrentOrganization(org) ==
  /\ currentOrganization' = org
  /\ orgData' = org

SetCurrentOrganization(org) ==
  /\ setCurrentOrganization(org)
  /\ UNCHANGED <<authVars, token, loginVars, logoutVars, sessionOpVars>>
  /\ UNCHANGED <<serverRev, organizations, members, usageStats, orgLoading,
                 orgError, orgOpVars, cacheVars>>
  /\ UNCHANGED workVars

\* loadOrganizations(), up to `await api.get(...)`
LoadOrganizationsStart ==
  /\ loadOrgsPc = "idle"
  /\ orgLoading' = TRUE
  /\ orgError' = NoError
  /\ loadOrgsPc' = "pending"
  /\ UNCHANGED <<authVars, svcVars, loginVars, logoutVars, sessionOpVars>>
  /\ UNCHANGED <<serverRev, currentOrganization, organizations, members,
                 usageStats, updateOrgPc, loadUsagePc,
                 cacheVars>>
  /\ UNCHANGED workVars

LoadOrganizationsOk(list) ==
  /\ loadOrgsPc = "pending"
  /\ organizations' = list
  /\ orgLoading' = FALSE
  /\ orgError' = NoError
  /\ IF currentOrganization = NoOrg /\ Len(list) > 0
       THEN setCurrentOrganization(list[1])
       ELSE UNCHANGED <<currentOrganization, orgData>>
  /\ loadOrgsPc' = "idle"
  /\ UNCHANGED <<authVars, token, loginVars, logoutVars, sessionOpVars>>
  /\ UNCHANGED <<serverRev, members, usageStats, updateOrgPc,
                 loadUsagePc, cacheVars>>
  /\ UNCHANGED workVars

LoadOrganizationsFail ==
  /\ loadOrgsPc = "pending"
  /\ orgLoading' = FALSE
  /\ orgError' = "load_organizations"
  /\ loadOrgsPc' = "idle"
  /\ UNCHANGED <<authVars, svcVars, loginVars, logoutVars, sessionOpVars>>
  /\ UNCHANGED <<serverRev, currentOrganization, organizations, members,
                 usageStats, updateOrgPc, loadUsagePc,
                 cacheVars>>
  /\ UNCHANGED workVars

\* updateOrganization(organizationId, data), up to `await api.put(...)`;
\* data is the new value of the mutable attributes
UpdateOrganizationStart(id, data) ==
  /\ updateOrgPc = NoUpdate
  /\ orgLoading' = TRUE
  /\ orgError' = NoError
  /\ updateOrgPc' = [id |-> id, rev |-> data]
  /\ UNCHANGED <<authVars, svcVars, loginVars, logoutVars, sessionOpVars>>
  /\ UNCHANGED <<serverRev, currentOrganization, organizations, members,
                 usageStats, loadOrgsPc, loadUsagePc,
                 cacheVars>>
  /\ UNCHANGED workVars

\* the server stored the update and returns the full updated entity
UpdateOrganizationOk ==
  /\ updateOrgPc # NoUpdate
  /\ serverRev' = [serverRev EXCEPT ![updateOrgPc.id] = updateOrgPc.rev]
  /\ IF currentOrganization.id = updateOrgPc.id
       THEN setCurrentOrganization(updateOrgPc)
       ELSE UNCHANGED <<currentOrganization, orgData>>
  /\ organizations' = [i \in DOMAIN organizations |->
                         IF organizations[i].id = updateOrgPc.id
                           THEN updateOrgPc ELSE organizations[i]]
  /\ orgLoading' = FALSE
  /\ orgError' = NoError
  /\ updateOrgPc' = NoUpdate
  /\ UNCHANGED <<authVars, token, loginVars, logoutVars, sessionOpVars>>
  /\ UNCHANGED <<members, usageStats, loadOrgsPc, loadUsagePc,
                 cacheVars>>
  /\ UNCHANGED workVars

UpdateOrganizationFail ==
  /\ updateOrgPc # NoUpdate
  /\ orgLoading' = FALSE
  /\ orgError' = "update_organization"
  /\ updateOrgPc' = NoUpdate
  /\ UNCHANGED <<authVars, svcVars, loginVars, logoutVars, sessionOpVars>>
  /\ UNCHANGED <<serverRev, currentOrganization, organizations, members,
                 usageStats, loadOrgsPc, loadUsagePc,
                 cacheVars>>
  /\ UNCHANGED workVars

\* loadUsageStats(organizationId), called by Overview for the id of the auth
\* store's organization; usageStats is modelled by the organization whose
\* statistics it holds (0: null)
LoadUsageStatsStart ==
  /\ organization # NoOrg
  /\ loadUsagePc = 0
  /\ orgLoading' = TRUE
  /\ orgError' = NoError
  /\ loadUsagePc' = organization.id
  /\ UNCHANGED <<authVars, svcVars, loginVars, logoutVars, sessionOpVars>>
  /\ UNCHANGED <<serverRev, currentOrganization, organizations, members,
                 usageStats, loadOrgsPc, updateOrgPc,
                 cacheVars>>
  /\ UNCHANGED workVars

LoadUsageStatsOk ==
  /\ loadUsagePc # 0
  /\ usageStats' = loadUsagePc
  /\ orgLoading' = FALSE
  /\ orgError' = NoError
  /\ loadUsagePc' = 0
  /\ UNCHANGED <<authVars, svcVars, loginVars, logoutVars, sessionOpVars>>
  /\ UNCHANGED <<serverRev, currentOrganization, organizations, members,
                 loadOrgsPc, updateOrgPc, cacheVars>>
  /\ UNCHANGED workVars

LoadUsageStatsFail ==
  /\ loadUsagePc # 0
  /\ orgLoading' = FALSE
  /\ orgError' = "load_usage"
  /\ loadUsagePc' = 0
  /\ UNCHANGED <<authVars, svcVars, loginVars, logoutVars, sessionOpVars>>
  /\ UNCHANGED <<serverRev, currentOrganization, organizations, members,
                 usageStats, loadOrgsPc, updateOrgPc,
                 cacheVars>>
  /\ UNCHANGED workVars

\* ------------------------------------------------------------ query cache
\* Query keys are arrays of strings; ids are written as strings.
Id(n) == ToString(n)
\* `organization?.id || ''` of the components
ActiveOrgId == IF organization = NoOrg THEN "" ELSE Id(organization.id)

\* queryKeys (hooks/api.ts)
UserProfileKey == <<"user", "profile">>
OrganizationListKey == <<"organizations">>
OrganizationDetailKey(id) == <<"organizations", id>>
OrganizationMembersKey(id) == <<"organizations", id, "members">>
OrganizationUsageKey(id) == <<"organizations", id, "usage">>
StyleListKeyMutant(orgId) == <<"organizations", "styles">>
StyleListKey(orgId) == <<"organizations", orgId, "styles">>
StyleDetailKey(orgId, id) == <<"organizations", orgId, "styles", id>>
StyleAnalysisKey(orgId, id) ==
  <<"organizations", orgId, "styles", id, "analysis">>
ContentListKey(orgId) == <<"organizations", orgId, "content">>
ContentDetailKey(orgId, id) == <<"organizations", orgId, "content", id>>
ContentIterationsKey(orgId, id) ==
  <<"organizations", orgId, "content", id, "iterations">>

\* The queries mounted by the components, as [key, org]: org is the
\* organizationId argument of the hook, which its queryFn sends the request
\* for.  useStyles appends its searchParams to the list key.
UseStyles(orgId) ==
  [key |-> Append(StyleListKey(orgId), "is_active"), org |-> orgId]
UseContentDetail(orgId, id) ==
  [key |-> ContentDetailKey(orgId, id), org |-> orgId]
UseOrganizationUsage(orgId) ==
  [key |-> OrganizationUsageKey(orgId), org |-> orgId]

\* queries the mounted components observe under organizationId orgId
MountedQueries(orgId) ==
  {UseStyles(orgId)} \cup {UseContentDetail(orgId, Id(c)) : c \in Contents}

\* the organization a key is namespaced by ("" when it is not)
KeyOrg(k) == IF Len(k) >= 2 /\ k[1] = "organizations" THEN k[2] ELSE ""

Has(k) == \E e \in cache : e.key = k
Entry(k) == CHOOSE e \in cache : e.key = k

\* `data` returned by a hook for query q: the cached entry of its key, if any
\* ("": undefined), given as the organization the data was fetched for
QueryData(q) == IF Has(q.key) THEN Entry(q.key).origin ELSE ""

\* queries.retry of the query client: asked after each failed attempt with
\* the number of failures before it
QueryRetryMutant(failureCount, status) ==
  IF status >= 400 /\ status < 500 THEN FALSE ELSE failureCount < 4

QueryRetry(failureCount, status) ==
  IF status >= 400 /\ status < 500 THEN FALSE ELSE failureCount < 3

\* mutations.retry of the query client
MutationRetry(failureCount, status) ==
  IF status >= 400 /\ status < 500 THEN FALSE ELSE failureCount < 2

\* the organization and the content a content key addresses
OrgOf(s) == CHOOSE o \in Orgs : Id(o) = s
ContentIds == {Id(c) : c \in AllContents}
IsContentKey(k) ==
  Len(k) >= 4 /\ k[1] = "organizations" /\ k[3] = "content" /\ k[4] \in ContentIds
ContentOf(k) == CHOOSE c \in AllContents : Id(c) = k[4]
IsContentListKey(k) ==
  Len(k) >= 3 /\ k[1] = "organizations" /\ k[3] = "content" /\ ~IsContentKey(k)

\* whether the server answers the request of key k with data (a content
\* that does not exist gives 404)
ServerHas(k) ==
  IsContentKey(k) => serverContent[OrgOf(k[2])][ContentOf(k)] = "live"

\* the data the server answers the request of key k with, as the content
\* ids in it (styles and usage statistics are not told apart)
ServerData(k) ==
  IF IsContentKey(k) THEN {ContentOf(k)}
  ELSE IF IsContentListKey(k)
       THEN {c \in AllContents : serverContent[OrgOf(k[2])][c] = "live"}
       ELSE {}

\* the status of each content in the answer to the request of key k
ServerStatuses(k) ==
  IF IsContentKey(k) \/ IsContentListKey(k)
  THEN {<<c, serverStatus[OrgOf(k[2])][c]>> : c \in ServerData(k)}
  ELSE {}

\* a mounted, enabled query whose entry is missing or stale starts its
\* queryFn (enabled: !!organizationId); requests for one key are shared
QueryStart(q) ==
  /\ q.org # ""
  /\ IF Has(q.key) THEN Entry(q.key).status = "stale" ELSE TRUE
  /\ \A r \in inflight : r.key # q.key
  /\ Cardinality(inflight) < MaxInflight
  /\ inflight' = inflight \cup
                    {[key |-> q.key, org |-> q.org, failureCount |-> 0]}
  /\ UNCHANGED <<authVars, svcVars, loginVars, logoutVars, sessionOpVars>>
  /\ UNCHANGED <<serverRev, orgStoreVars, orgOpVars, cache, lateResponse>>
  /\ UNCHANGED workVars

\* the response of request r arrives: it is stored under r's key
QueryOk(r) ==
  /\ r \in inflight
  /\ ServerHas(r.key)
  /\ cache' = {e \in cache : e.key # r.key}
                \cup {[key |-> r.key, status |-> "fresh", origin |-> r.org,
                       data |-> ServerData(r.key),
                       statuses |-> ServerStatuses(r.key)]}
  /\ inflight' = inflight \ {r}
  /\ lateResponse' = (r.org # ActiveOrgId)
  /\ UNCHANGED <<authVars, svcVars, loginVars, logoutVars, sessionOpVars>>
  /\ UNCHANGED <<serverRev, orgStoreVars, orgOpVars>>
  /\ UNCHANGED workVars

\* an attempt of request r failed and the retry policy asks for another
QueryAttemptFail(r, status) ==
  /\ r \in inflight
  /\ QueryRetry(r.failureCount, status)
  /\ inflight' = (inflight \ {r})
                    \cup {[r EXCEPT !.failureCount = r.failureCount + 1]}
  /\ UNCHANGED <<authVars, svcVars, loginVars, logoutVars, sessionOpVars>>
  /\ UNCHANGED <<serverRev, orgStoreVars, orgOpVars, cache, lateResponse>>
  /\ UNCHANGED workVars

\* request r failed for good (4xx, or the retries are used up)
QueryFail(r, status) ==
  /\ r \in inflight
  /\ ~QueryRetry(r.failureCount, status)
  /\ inflight' = inflight \ {r}
  /\ UNCHANGED <<authVars, svcVars, loginVars, logoutVars, sessionOpVars>>
  /\ UNCHANGED <<serverRev, orgStoreVars, orgOpVars, cache, lateResponse>>
  /\ UNCHANGED workVars

\* staleTime (5 minutes) of entry e elapsed
BecomeStale(e) ==
  /\ e \in cache
  /\ e.status = "fresh"
  /\ cache' = (cache \ {e}) \cup {[e EXCEPT !.status = "stale"]}
  /\ UNCHANGED <<authVars, svcVars, loginVars, logoutVars, sessionOpVars>>
  /\ UNCHANGED <<serverRev, orgStoreVars, orgOpVars, inflight, lateResponse>>
  /\ UNCHANGED workVars

\* cacheTime (10 minutes) of entry e elapsed with no component observing it
CacheGc(e) ==
  /\ e \in cache
  /\ \A q \in MountedQueries(ActiveOrgId) : q.key # e.key
  /\ cache' = cache \ {e}
  /\ UNCHANGED <<authVars, svcVars, loginVars, logoutVars, sessionOpVars>>
  /\ UNCHANGED <<serverRev, orgStoreVars, orgOpVars, inflight, lateResponse>>
  /\ UNCHANGED workVars

\* --------------------------------------------------------- mutation hooks
\* everything the mutation hooks and the generation form leave alone
storeSide ==
  <<authVars, svcVars, loginVars, logoutVars, sessionOpVars, serverRev,
    orgStoreVars, orgOpVars>>
sessionSide == <<storeSide, pageVars>>

\* the other query hooks of hooks/api.ts; useContent appends its
\* searchParams (here: none given) to the list key
UseStyle(orgId, id) == [key |-> StyleDetailKey(orgId, id), org |-> orgId]
UseContent(orgId) ==
  [key |-> Append(ContentListKey(orgId), "undefined"), org |-> orgId]
UseContentIterations(orgId, id) ==
  [key |-> ContentIterationsKey(orgId, id), org |-> orgId]

\* the queries of styles a component can mount for organizationId orgId
StyleQueries(orgId) ==
  {UseStyles(orgId)} \cup {UseStyle(orgId, Id(s)) : s \in Styles}

\* the queries that an edit of an existing content touches
EditQueries(orgId) ==
  {UseOrganizationUsage(orgId)}
    \cup {UseContentDetail(orgId, Id(c)) : c \in Contents}
    \cup {UseContentIterations(orgId, Id(c)) : c \in Contents}

\* the queries that a deletion of an existing content touches
DeleteQueries(orgId) ==
  {UseContent(orgId)}
    \cup {UseContentDetail(orgId, Id(c)) : c \in Contents}
    \cup {UseContentIterations(orgId, Id(c)) : c \in Contents}

\* the queries that show the status of a generated content: the content
\* list and its detail, with the generation form's style list
StatusQueries(orgId) ==
  {UseStyles(orgId), UseContent(orgId)}
    \cup {UseContentDetail(orgId, Id(c)) : c \in NewContents}

\* the queries around a generation: the form's style list, the content
\* list, the usage statistics and the detail of a generated content
GenerateQueries(orgId) ==
  {UseStyles(orgId), UseContent(orgId), UseOrganizationUsage(orgId)}
    \cup {UseContentDetail(orgId, Id(c)) : c \in NewContents}

\* the cached value a hook returns for query q (the content ids in it), or
\* {} with nothing cached; a stale entry is returned while it is refetched
QueryValue(q) == IF Has(q.key) THEN Entry(q.key).data ELSE {}

\* a query filter { queryKey: f } matches every key that starts with f
IsPrefix(f, k) == Len(f) <= Len(k) /\ SubSeq(k, 1, Len(f)) = f

\* queryClient.invalidateQueries({ queryKey: f }) on cache c
invalidateQueries(c, f) ==
  {IF IsPrefix(f, e.key) THEN [e EXCEPT !.status = "stale"] ELSE e : e \in c}

\* queryClient.removeQueries({ queryKey: f }) on cache c
removeQueries(c, f) == {e \in c : ~IsPrefix(f, e.key)}

\* onSuccess of each mutation hook, as the cache it leaves
useCreateStyle(c, orgId) == invalidateQueries(c, StyleListKey(orgId))

useUpdateStyleMutant(c, orgId, id) ==
  invalidateQueries(c, StyleDetailKey(orgId, id))

useUpdateStyle(c, orgId, id) ==
  invalidateQueries(invalidateQueries(c, StyleListKey(orgId)),
                    StyleDetailKey(orgId, id))

useDeleteStyleMutant(c, orgId, id) ==
  removeQueries(invalidateQueries(c, OrganizationListKey),
                StyleDetailKey(orgId, id))

useDeleteStyle(c, orgId, id) ==
  removeQueries(invalidateQueries(c, StyleListKey(orgId)),
                StyleDetailKey(orgId, id))

useGenerateContentMutant(c, orgId) ==
  invalidateQueries(c, ContentListKey(orgId))

useGenerateContent(c, orgId) ==
  invalidateQueries(invalidateQueries(c, ContentListKey(orgId)),
                    OrganizationUsageKey(orgId))

useEditContentMutant(c, orgId, id) ==
  invalidateQueries(invalidateQueries(c, ContentDetailKey(orgId, id)),
                    ContentIterationsKey(orgId, id))

useEditContent(c, orgId, id) ==
  invalidateQueries(
    invalidateQueries(invalidateQueries(c, ContentDetailKey(orgId, id)),
                      ContentIterationsKey(orgId, id)),
    OrganizationUsageKey(orgId))

useDeleteContentMutant(c, orgId, id) ==
  invalidateQueries(invalidateQueries(c, ContentListKey(orgId)),
                    ContentDetailKey(orgId, id))

useDeleteContent(c, orgId, id) ==
  removeQueries(invalidateQueries(c, ContentListKey(orgId)),
                ContentDetailKey(orgId, id))

\* the hooks other than useGenerateContent, with the ids they can be
\* called with ("": the hook takes no entity id)
StyleKinds == {"createStyle", "updateStyle", "deleteStyle"}
ContentKinds == {"edit", "deleteContent"}
FileKinds == {"uploadFile", "deleteFile"}
HookKinds == StyleKinds \cup ContentKinds \cup FileKinds
RefIds == {Id(f) : f \in Refs}
HookIds(kind) ==
  IF kind \in {"createStyle", "uploadFile"} THEN {""}
  ELSE IF kind \in {"updateStyle", "deleteStyle"}
       THEN {Id(s) : s \in Styles}
       ELSE IF kind = "deleteFile" THEN RefIds ELSE ContentIds

onSuccess(m, c) ==
  CASE m.kind = "createStyle" -> useCreateStyle(c, m.org)
    [] m.kind = "updateStyle" -> useUpdateStyle(c, m.org, m.id)
    [] m.kind = "deleteStyle" -> useDeleteStyle(c, m.org, m.id)
    [] m.kind = "edit" -> useEditContent(c, m.org, m.id)
    [] m.kind = "deleteContent" -> useDeleteContent(c, m.org, m.id)
    [] m.kind \in FileKinds -> c

\* the content a content mutation addresses
MutatedContent(m) == CHOOSE c \in AllContents : Id(c) = m.id

\* the reference article useDeleteFile's mutation addresses
DeletedRef(m) == CHOOSE f \in Refs : Id(f) = m.id

\* the status the server gives a content whose status is st when an edit
\* of it succeeds: edited, unless it is already beyond edited
StatusAfterEdit(st) == IF Rank(st) < Rank("edited") THEN "edited" ELSE st

\* mutate() of a hook called with the active organization and entity id
Mutate(kind, id) ==
  /\ kind \in HookKinds
  /\ id \in HookIds(kind)
  /\ mutation = NoMutation
  /\ mutation' = [kind |-> kind, org |-> ActiveOrgId, id |-> id,
                  failureCount |-> 0, data |-> defaultValues]
  /\ mutationResult' = NoResult
  /\ UNCHANGED <<sessionSide, cacheVars, serverContent, serverOther, formVars>>

\* the request of the mutation in flight succeeds (the server knows the
\* organization and, for a content mutation, the content): onSuccess runs,
\* then the caller's promise resolves
MutationOkMutant(kind) ==
  /\ kind \in HookKinds
  /\ mutation.kind = kind
  /\ mutation.org # ""
  /\ kind \in {"edit", "deleteContent"} =>
       serverContent[OrgOf(mutation.org)][MutatedContent(mutation)] = "live"
  /\ kind = "deleteFile" =>
       \E s \in Styles : DeletedRef(mutation) \in styleRefs[OrgOf(mutation.org)][s]
  /\ serverContent' =
       IF kind = "deleteContent"
       THEN [serverContent EXCEPT
               ![OrgOf(mutation.org)][MutatedContent(mutation)] = "deleted"]
       ELSE serverContent
  /\ serverStatus' =
       IF kind = "edit"
       THEN [serverStatus EXCEPT
               ![OrgOf(mutation.org)][MutatedContent(mutation)] =
                  StatusAfterEdit(@)]
       ELSE serverStatus
  /\ styleRefs' =
       IF kind = "deleteFile"
       THEN [styleRefs EXCEPT
               ![OrgOf(mutation.org)] =
                  [s \in Styles |-> @[s] \ {DeletedRef(mutation)}]]
       ELSE styleRefs
  /\ cache' =
       {IF kind = "edit" /\ e.key = ContentDetailKey(mutation.org, mutation.id)
        THEN [e EXCEPT !.statuses = {<<MutatedContent(mutation), "draft">>}]
        ELSE e : e \in onSuccess(mutation, cache)}
  /\ mutation' = NoMutation
  /\ mutationResult' = [kind |-> kind, outcome |-> "success"]
  /\ UNCHANGED <<sessionSide, inflight, lateResponse, formVars>>

MutationOk(kind) ==
  /\ kind \in HookKinds
  /\ mutation.kind = kind
  /\ mutation.org # ""
  /\ kind \in {"edit", "deleteContent"} =>
       serverContent[OrgOf(mutation.org)][MutatedContent(mutation)] = "live"
  /\ kind = "deleteFile" =>
       \E s \in Styles : DeletedRef(mutation) \in styleRefs[OrgOf(mutation.org)][s]
  /\ serverContent' =
       IF kind = "deleteContent"
       THEN [serverContent EXCEPT
               ![OrgOf(mutation.org)][MutatedContent(mutation)] = "deleted"]
       ELSE serverContent
  /\ serverStatus' =
       IF kind = "edit"
       THEN [serverStatus EXCEPT
               ![OrgOf(mutation.org)][MutatedContent(mutation)] =
                  StatusAfterEdit(@)]
       ELSE serverStatus
  /\ styleRefs' =
       IF kind = "deleteFile"
       THEN [styleRefs EXCEPT
               ![OrgOf(mutation.org)] =
                  [s \in Styles |-> @[s] \ {DeletedRef(mutation)}]]
       ELSE styleRefs
  /\ cache' = onSuccess(mutation, cache)
  /\ mutation' = NoMutation
  /\ mutationResult' = [kind |-> kind, outcome |-> "success"]
  /\ UNCHANGED <<sessionSide, inflight, lateResponse, formVars>>

\* an attempt of the mutation in flight failed and mutations.retry asks for
\* another: the request is sent again
MutationAttemptFail(status) ==
  /\ mutation.kind # "none"
  /\ MutationRetry(mutation.failureCount, status)
  /\ mutation' = [mutation EXCEPT !.failureCount = mutation.failureCount + 1]
  /\ requestsSent' =
       IF mutation.kind = "generate" THEN requestsSent + 1 ELSE requestsSent
  /\ UNCHANGED <<sessionSide, cacheVars, serverContent, serverOther, mutationResult>>
  /\ UNCHANGED <<formValues, formErrors, genStatus, genError, route>>

\* the mutation in flight failed for good: no hook has an onError
MutationFail(status) ==
  /\ mutation.kind \in HookKinds
  /\ ~MutationRetry(mutation.failureCount, status)
  /\ mutation' = NoMutation
  /\ mutationResult' = [kind |-> mutation.kind, outcome |-> "error"]
  /\ UNCHANGED <<sessionSide, cacheVars, serverContent, serverOther, formVars>>

\* ------------------------------------------------- ContentGenerationForm
\* a valid submission
ValidSubmission ==
  [brief |-> 10, style_profile_id |-> Id(1), max_tokens |-> 2000,
   temperature |-> 7]

\* values a user can leave in the form's fields: the defaults, and the
\* valid submission with one field changed
FormInputs ==
  {defaultValues}
    \cup {[ValidSubmission EXCEPT !.brief = b] : b \in {0, 9, 10}}
    \cup {[ValidSubmission EXCEPT !.style_profile_id = x] :
            x \in {""} \cup {Id(s) : s \in Styles}}
    \cup {[ValidSubmission EXCEPT !.max_tokens = n] :
            n \in {NaN, 99, 100, 4000, 4001}}
    \cup {[ValidSubmission EXCEPT !.temperature = t] :
            t \in {-1, 0, 20, 21}}

\* contentGenerationSchema (types/forms.ts) on the form's values; z.number()
\* rejects NaN
contentGenerationSchema(d) ==
  /\ d.brief >= 10
  /\ d.style_profile_id # ""
  /\ d.max_tokens # NaN /\ d.max_tokens >= 100 /\ d.max_tokens <= 4000
  /\ d.temperature # NaN /\ d.temperature >= 0 /\ d.temperature <= 20

\* form valid: onSubmit calls generateContentMutation.mutateAsync(data)
onSubmit(d) ==
  /\ formErrors' = FALSE
  /\ genStatus' = "pending"
  /\ genError' = NoStatus
  /\ mutation' = [kind |-> "generate", org |-> ActiveOrgId, id |-> "",
                  failureCount |-> 0, data |-> d]
  /\ mutationResult' = NoResult
  /\ requestsSent' = 1

\* form invalid: the resolver's errors are shown, onSubmit is not called
onInvalidMutant(d) ==
  /\ formErrors' = TRUE
  /\ genStatus' = "pending"
  /\ genError' = NoStatus
  /\ mutation' = [kind |-> "generate", org |-> ActiveOrgId, id |-> "",
                  failureCount |-> 0, data |-> d]
  /\ mutationResult' = NoResult
  /\ requestsSent' = 1

onInvalid(d) ==
  /\ formErrors' = TRUE
  /\ requestsSent' = 0
  /\ UNCHANGED <<genStatus, genError, mutation, mutationResult>>

\* the user leaves values d in the fields and presses the submit button
\* (disabled while the mutation is pending or no style is listed):
\* handleSubmit(onSubmit) runs the zod resolver first
HandleSubmit(d) ==
  /\ route = 0
  /\ genStatus # "pending"
  /\ Has(UseStyles(ActiveOrgId).key)
  /\ mutation = NoMutation
  /\ formValues' = d
  /\ IF contentGenerationSchema(d) THEN onSubmit(d) ELSE onInvalid(d)
  /\ UNCHANGED <<sessionSide, cacheVars, serverContent, serverOther, route>>

\* the generation request succeeds with the new content c: the hook's
\* onSuccess, then onSubmit continues with onSuccess?.(result.content),
\* which is handleSuccess of the page (router.push to the content)
GenerateOk(c) ==
  /\ mutation.kind = "generate"
  /\ mutation.org # ""
  /\ c \in NewContents
  /\ serverContent[OrgOf(mutation.org)][c] = "none"
  /\ serverContent' =
       [serverContent EXCEPT ![OrgOf(mutation.org)][c] = "live"]
  /\ serverStatus' =
       [serverStatus EXCEPT ![OrgOf(mutation.org)][c] = "generated"]
  /\ UNCHANGED styleRefs
  /\ cache' = useGenerateContent(cache, mutation.org)
  /\ mutation' = NoMutation
  /\ mutationResult' = [kind |-> "generate", outcome |-> "success"]
  /\ genStatus' = "success"
  /\ route' = c
  /\ UNCHANGED <<sessionSide, inflight, lateResponse>>
  /\ UNCHANGED <<formValues, formErrors, genError, requestsSent>>

\* the generation request failed for good: onSubmit's catch logs it, the
\* form shows generateContentMutation.error
GenerateFailMutant(status) ==
  /\ mutation.kind = "generate"
  /\ ~MutationRetry(mutation.failureCount, status)
  /\ mutation' = NoMutation
  /\ mutationResult' = [kind |-> "generate", outcome |-> "error"]
  /\ genStatus' = "error"
  /\ genError' = status
  /\ formValues' = defaultValues
  /\ UNCHANGED <<sessionSide, cacheVars, serverContent, serverOther>>
  /\ UNCHANGED <<formErrors, route, requestsSent>>

GenerateFail(status) ==
  /\ mutation.kind = "generate"
  /\ ~MutationRetry(mutation.failureCount, status)
  /\ mutation' = NoMutation
  /\ mutationResult' = [kind |-> "generate", outcome |-> "error"]
  /\ genStatus' = "error"
  /\ genError' = status
  /\ UNCHANGED <<sessionSide, cacheVars, serverContent, serverOther>>
  /\ UNCHANGED <<formValues, formErrors, route, requestsSent>>

\* the user opens /dashboard/content/new again: a new form is mounted
OpenNewContent ==
  /\ route # 0
  /\ route' = 0
  /\ formValues' = defaultValues
  /\ formErrors' = FALSE
  /\ genStatus' = "idle"
  /\ genError' = NoStatus
  /\ requestsSent' = 0
  /\ UNCHANGED <<sessionSide, cacheVars, mutationVars>>

\* ----------------------------------------------------- ContentEditorPage
\* everything the content editor page's handlers leave alone
editorSide ==
  <<storeSide, cacheVars, mutationVars, formVars, displayVars, styleFormVars,
    middlewareVars>>

\* the user follows a link to /dashboard/content/c (ContentList,
\* RecentArticles)
OpenContent(c) ==
  /\ c \in AllContents
  /\ route # c
  /\ route' = c
  /\ UNCHANGED <<sessionSide, cacheVars, mutationVars>>
  /\ UNCHANGED <<formValues, formErrors, genStatus, genError, requestsSent>>

\* the page shows the editor once useContentDetail has data
EditorShown ==
  /\ route # 0
  /\ Has(UseContentDetail(ActiveOrgId, Id(route)).key)

\* handleSave(content): the save button of the editor
HandleSave ==
  /\ EditorShown
  /\ consoleLog' = [handler |-> "handleSave", arg |-> "html"]
  /\ UNCHANGED editorSide

\* handleAIAssist(prompt): an AI action button of the page, or the AI
\* assistant of the editor
HandleAIAssist(prompt) ==
  /\ EditorShown
  /\ prompt \in EditPrompts
  /\ consoleLog' = [handler |-> "handleAIAssist", arg |-> prompt]
  /\ UNCHANGED editorSide

\* ------------------------------------------------------------- StyleForm
\* everything the style form's handlers leave alone
styleFormSide ==
  <<storeSide, formVars, editorVars, displayVars, middlewareVars>>

\* styleCreationSchema: name.min(2), reference_articles.min(1).max(10)
MinNameLength == 2
MinReferenceFiles == 1
MaxReferenceFiles == 10

Files == 1..NumFiles
\* what the dropzone can hand to onFilesChange: the accepted files, in the
\* order they were selected
FileSelections ==
  {<<>>} \cup {<<f>> : f \in Files} \cup {<<f, g>> : f, g \in Files}
\* names typed into the name field, as their characters
StyleNames == {<<>>, <<"a">>, <<"a", "b">>}
StyleDescriptions == {"", "formal"}
\* file_id of an upload's response
FileIdValues == {"f1", "f2"}

\* the fields zodResolver(styleCreationSchema) reports an error for
styleCreationSchema(v) ==
  (IF Len(v.name) < MinNameLength THEN {"name"} ELSE {})
    \cup (IF Len(v.reference_articles) < MinReferenceFiles
             \/ Len(v.reference_articles) > MaxReferenceFiles
          THEN {"reference_articles"} ELSE {})

isEditing == styleId # ""

\* the requests of onSubmit, as mutations in flight
UploadRequest(f) ==
  [kind |-> "uploadFile", org |-> ActiveOrgId, id |-> "", failureCount |-> 0,
   data |-> [file |-> f]]
CreateRequest(data, ids) ==
  [kind |-> "createStyle", org |-> ActiveOrgId, id |-> "", failureCount |-> 0,
   data |-> [name |-> data.name, description |-> data.description,
             reference_article_ids |-> ids]]
UpdateRequest(data) ==
  [kind |-> "updateStyle", org |-> ActiveOrgId, id |-> styleId,
   failureCount |-> 0,
   data |-> [name |-> data.name, description |-> data.description]]

\* an entry of styleLog for a request just sent
Sent(m) ==
  [kind |-> m.kind, data |-> m.data, outcome |-> "pending", file_id |-> ""]
\* styleLog with the outcome of its last request
Settled(log, outcome, fid) ==
  [log EXCEPT ![Len(log)] = [@ EXCEPT !.outcome = outcome, !.file_id = fid]]

\* the create branch of onSubmit with ids collected so far: the upload of
\* the next file of the loop, or the create request after the loop
NextCreateStep(data, ids) ==
  IF Len(ids) < Len(data.reference_articles)
  THEN UploadRequest(data.reference_articles[Len(ids) + 1])
  ELSE CreateRequest(data, ids)

PcOf(m) ==
  CASE m.kind = "uploadFile" -> "uploading"
    [] m.kind = "createStyle" -> "creating"
    [] m.kind = "updateStyle" -> "updating"

\* /dashboard/styles/new mounts the form without styleId; the edit page
\* mounts it, once useStyle has data, with the style's name and description
OpenStyleForm(id, name, description) ==
  /\ styleId = NoStyleForm
  /\ stylePc = "idle"
  /\ id \in {""} \cup {Id(st) : st \in Styles}
  /\ id # "" => Has(UseStyle(ActiveOrgId, id).key)
  /\ id = "" => name = <<>> /\ description = ""
  /\ styleId' = id
  /\ styleFormValues' =
       [name |-> name, description |-> description,
        reference_articles |-> <<>>]
  /\ styleFormErrors' = {}
  /\ submitCount' = 0
  /\ onSubmitData' = NoStyleValues
  /\ fileIds' = <<>>
  /\ styleLog' = <<>>
  /\ styleFormResult' = "none"
  /\ UNCHANGED <<styleFormSide, cacheVars, mutationVars, stylePc>>

\* the user types into the name and description fields; after a submit
\* the changed field is validated again (reValidateMode: onChange)
StyleFormType(name, description) ==
  /\ styleId # NoStyleForm
  /\ name \in StyleNames /\ description \in StyleDescriptions
  /\ styleFormValues' =
       [styleFormValues EXCEPT !.name = name, !.description = description]
  /\ styleFormErrors' =
       IF submitCount > 0 /\ name # styleFormValues.name
       THEN (styleFormErrors \ {"name"})
              \cup (styleCreationSchema(styleFormValues') \cap {"name"})
       ELSE styleFormErrors
  /\ UNCHANGED <<styleFormSide, cacheVars, mutationVars>>
  /\ UNCHANGED <<styleId, submitCount, onSubmitData, stylePc, fileIds,
                 styleLog, styleFormResult>>

\* handleFilesChange(files): FileUpload is rendered only when not editing
handleFilesChange(files) ==
  /\ styleId # NoStyleForm
  /\ ~isEditing
  /\ files \in FileSelections
  /\ styleFormValues' = [styleFormValues EXCEPT !.reference_articles = files]
  /\ styleFormErrors' =
       (styleFormErrors \ {"reference_articles"})
         \cup (styleCreationSchema(styleFormValues') \cap {"reference_articles"})
  /\ UNCHANGED <<styleFormSide, cacheVars, mutationVars>>
  /\ UNCHANGED <<styleId, submitCount, onSubmitData, stylePc, fileIds,
                 styleLog, styleFormResult>>

\* onCancel: router.push('/dashboard/styles'); the button is disabled
\* while a mutation of the form is pending
StyleFormCancel ==
  /\ styleId # NoStyleForm
  /\ stylePc = "idle"
  /\ styleId' = NoStyleForm
  /\ UNCHANGED <<styleFormSide, cacheVars, mutationVars>>
  /\ UNCHANGED <<styleFormValues, styleFormErrors, submitCount, onSubmitData,
                 stylePc, fileIds, styleLog, styleFormResult>>

\* handleSubmit(onSubmit): the resolver validates the values; onSubmit runs
\* only when it reports no error, up to its first await.  The submit
\* button is disabled while a mutation of the form is pending.
StyleFormSubmit ==
  /\ styleId # NoStyleForm
  /\ stylePc = "idle"
  /\ mutation = NoMutation
  /\ submitCount < MaxSubmits
  /\ submitCount' = submitCount + 1
  /\ styleFormErrors' = styleCreationSchema(styleFormValues)
  /\ IF styleFormErrors' # {}
     THEN UNCHANGED <<onSubmitData, stylePc, fileIds, styleLog,
                      styleFormResult, mutation, mutationResult>>
     ELSE /\ onSubmitData' = styleFormValues
          /\ fileIds' = <<>>
          /\ mutation' =
               IF isEditing THEN UpdateRequest(styleFormValues)
               ELSE NextCreateStep(styleFormValues, <<>>)
          /\ mutationResult' = NoResult
          /\ stylePc' = PcOf(mutation')
          /\ styleLog' = <<Sent(mutation')>>
          /\ styleFormResult' = "none"
  /\ UNCHANGED <<styleFormSide, cacheVars, serverContent, serverOther>>
  /\ UNCHANGED <<styleId, styleFormValues>>

\* `await uploadFileMutation.mutateAsync(file)` resolves with file_id fid:
\* fileIds.push, then the next turn of the loop or the create request
UploadOkMutant(fid) ==
  /\ stylePc = "uploading"
  /\ mutation.kind = "uploadFile"
  /\ mutation.org # ""
  /\ fid \in FileIdValues
  /\ cache' = onSuccess(mutation, cache)
  /\ fileIds' = <<fid>> \o fileIds
  /\ mutation' = NextCreateStep(onSubmitData, fileIds')
  /\ mutationResult' = [kind |-> "uploadFile", outcome |-> "success"]
  /\ stylePc' = PcOf(mutation')
  /\ styleLog' = Append(Settled(styleLog, "success", fid), Sent(mutation'))
  /\ UNCHANGED <<styleFormSide, inflight, lateResponse, serverContent,
                 serverOther>>
  /\ UNCHANGED <<styleId, styleFormValues, styleFormErrors, submitCount,
                 onSubmitData, styleFormResult>>

UploadOk(fid) ==
  /\ stylePc = "uploading"
  /\ mutation.kind = "uploadFile"
  /\ mutation.org # ""
  /\ fid \in FileIdValues
  /\ cache' = onSuccess(mutation, cache)
  /\ fileIds' = Append(fileIds, fid)
  /\ mutation' = NextCreateStep(onSubmitData, fileIds')
  /\ mutationResult' = [kind |-> "uploadFile", outcome |-> "success"]
  /\ stylePc' = PcOf(mutation')
  /\ styleLog' = Append(Settled(styleLog, "success", fid), Sent(mutation'))
  /\ UNCHANGED <<styleFormSide, inflight, lateResponse, serverContent,
                 serverOther>>
  /\ UNCHANGED <<styleId, styleFormValues, styleFormErrors, submitCount,
                 onSubmitData, styleFormResult>>

\* the create or update request succeeds: the hook's onSuccess runs, then
\* onSuccess?.() of the page, which leaves for /dashboard/styles
StyleSaveOk ==
  /\ stylePc \in {"creating", "updating"}
  /\ mutation.kind \in {"createStyle", "updateStyle"}
  /\ mutation.org # ""
  /\ cache' = onSuccess(mutation, cache)
  /\ mutation' = NoMutation
  /\ mutationResult' = [kind |-> mutation.kind, outcome |-> "success"]
  /\ stylePc' = "idle"
  /\ styleLog' = Settled(styleLog, "success", "")
  /\ styleFormResult' = "success"
  /\ styleId' = NoStyleForm
  /\ UNCHANGED <<styleFormSide, inflight, lateResponse, serverContent,
                 serverOther>>
  /\ UNCHANGED <<styleFormValues, styleFormErrors, submitCount, onSubmitData,
                 fileIds>>

\* the request onSubmit awaits fails for good: mutateAsync rejects and the
\* catch block logs the error
StyleRequestFail(status) ==
  /\ stylePc # "idle"
  /\ mutation.kind \in {"uploadFile", "createStyle", "updateStyle"}
  /\ ~MutationRetry(mutation.failureCount, status)
  /\ mutation' = NoMutation
  /\ mutationResult' = [kind |-> mutation.kind, outcome |-> "error"]
  /\ stylePc' = "idle"
  /\ styleLog' = Settled(styleLog, "error", "")
  /\ styleFormResult' = "error"
  /\ UNCHANGED <<styleFormSide, cacheVars, serverContent, serverOther>>
  /\ UNCHANGED <<styleId, styleFormValues, styleFormErrors, submitCount,
                 onSubmitData, fileIds>>

\* ------------------------------------------------------------ middleware
\* everything the middleware leaves alone
middlewareSide ==
  <<storeSide, cacheVars, mutationVars, formVars, editorVars, displayVars,
    styleFormVars>>

\* A string is the sequence of its pieces ("/" and the words between), so
\* that === is equality, + is \o and startsWith is IsPrefix:
\* '/dashboard/x' is <<"/", "dashboard", "/", "x">> and '/dashboardx' is
\* <<"/", "dashboard", "x">>.
publicRoutes ==
  {<<"/">>, <<"/", "login">>, <<"/", "register">>, <<"/", "reset-password">>,
   <<"/", "auth", "/", "callback">>, <<"/", "terms">>, <<"/", "privacy">>}
LoginPath == <<"/", "login">>
DashboardPrefix == <<"/", "dashboard">>
OrganizationsPath == <<"/", "dashboard", "/", "organizations">>

\* prefixes config.matcher keeps from the middleware
UnmatchedPrefixes ==
  {<<"/", "api">>, <<"/", "_next", "/", "static">>,
   <<"/", "_next", "/", "image">>, <<"/", "favicon.ico">>, <<"/", "public">>}
Matches(pathname) == \A x \in UnmatchedPrefixes : ~IsPrefix(x, pathname)

\* request paths
Paths ==
  publicRoutes
    \cup {<<"/", "login", "/", "x">>, <<"/", "login", "x">>, <<"/", "auth">>,
          <<"/", "x">>, DashboardPrefix, OrganizationsPath,
          <<"/", "dashboard", "/", "x">>, <<"/", "dashboard", "x">>,
          <<"/", "api", "/", "x">>, <<"/", "public">>}
\* values of a cookie: not sent, empty, or a value
CookieValues == {Undefined, <<>>, <<"v">>}
\* values of the Authorization header: not sent, empty, the scheme alone,
\* a bearer token, credentials of another scheme
HeaderValues ==
  {Undefined, <<>>, <<"Bearer">>, <<"Bearer ", "v">>, <<"Basic ", "v">>}

\* JavaScript truthiness of an optional string, and a || b
Truthy(v) == v # Undefined /\ v # <<>>
Or(a, b) == IF Truthy(a) THEN a ELSE b

\* str.replace(piece, ''): the first occurrence of the piece is removed
RECURSIVE replace(_, _)
replace(str, piece) ==
  IF str = <<>> THEN <<>>
  ELSE IF Head(str) = piece THEN Tail(str)
       ELSE <<Head(str)>> \o replace(Tail(str), piece)

\* cookies.get('access_token')?.value ||
\*   headers.get('authorization')?.replace('Bearer ', '')
TokenOf(req) ==
  Or(req.access_token,
     IF req.authorization = Undefined THEN Undefined
     ELSE replace(req.authorization, "Bearer "))

isPublicRoute(pathname) ==
  \E publicRoute \in publicRoutes :
    pathname = publicRoute \/ IsPrefix(Append(publicRoute, "/"), pathname)

PassThrough == [NoResponse EXCEPT !.type = "next"]
Redirect(pathname, param) ==
  [NoResponse EXCEPT !.type = "redirect", !.pathname = pathname,
                     !.redirect = param]

\* middleware(request), as its response
middlewareMutant(req) ==
  IF isPublicRoute(req.pathname) THEN PassThrough
  ELSE IF ~Truthy(TokenOf(req)) THEN Redirect(LoginPath, LoginPath)
  ELSE IF IsPrefix(DashboardPrefix, req.pathname)
            /\ ~Truthy(req.organization_id)
       THEN Redirect(OrganizationsPath, Undefined)
       ELSE [PassThrough EXCEPT !.headers = "security"]

middleware(req) ==
  IF isPublicRoute(req.pathname) THEN PassThrough
  ELSE IF ~Truthy(TokenOf(req)) THEN Redirect(LoginPath, req.pathname)
  ELSE IF IsPrefix(DashboardPrefix, req.pathname)
            /\ ~Truthy(req.organization_id)
       THEN Redirect(OrganizationsPath, Undefined)
       ELSE [PassThrough EXCEPT !.headers = "security"]

\* a client requests a path that config.matcher hands to the middleware
Request(pathname, access, org, auth) ==
  /\ pathname \in Paths
  /\ Matches(pathname)
  /\ request' = [pathname |-> pathname, access_token |-> access,
                 organization_id |-> org, authorization |-> auth]
  /\ response' = middleware(request')
  /\ redirects' = 0
  /\ UNCHANGED middlewareSide

\* the client follows the redirect it was answered with: the same cookies
\* and headers, the path of the Location (the query is not part of pathname)
FollowRedirect ==
  /\ response.type = "redirect"
  /\ redirects < MaxRedirects
  /\ Matches(response.pathname)
  /\ request' = [request EXCEPT !.pathname = response.pathname]
  /\ response' = middleware(request')
  /\ redirects' = redirects + 1
  /\ UNCHANGED middlewareSide

\* --------------------------------------------------------- StyleAnalysis
\* everything the rendering of StyleAnalysis leaves alone
displaySide ==
  <<storeSide, cacheVars, mutationVars, formVars, editorVars, styleFormVars,
    middlewareVars>>

getConfidenceColor(score) ==
  IF score >= HighConfidence THEN "text-green-600"
  ELSE IF score >= MediumConfidence THEN "text-yellow-600"
       ELSE "text-red-600"

getConfidenceBgColorMutant(score) ==
  IF score > HighConfidence THEN "bg-green-600"
  ELSE IF score >= MediumConfidence THEN "bg-yellow-600"
       ELSE "bg-red-600"

getConfidenceBgColor(score) ==
  IF score >= HighConfidence THEN "bg-green-600"
  ELSE IF score >= MediumConfidence THEN "bg-yellow-600"
       ELSE "bg-red-600"

\* the caption: high / medium / low confidence in the analysis (the low
\* one recommends adding reference material)
ConfidenceCaption(score) ==
  IF score >= HighConfidence THEN "high confidence"
  ELSE IF score >= MediumConfidence THEN "medium confidence"
       ELSE "low confidence"

\* StyleAnalysis is rendered with an analysis whose confidence_score is s
RenderStyleAnalysis(s) ==
  /\ s \in Scores
  /\ confidence_score' = s
  /\ confidenceText' = getConfidenceColor(s)
  /\ confidenceBar' = getConfidenceBgColor(s)
  /\ confidenceCaption' = ConfidenceCaption(s)
  /\ UNCHANGED displaySide

\* the queries of the two content pages: the form's style list and, on
\* /dashboard/content/c, the detail of c
PageQueries ==
  IF route = 0 THEN {UseStyles(ActiveOrgId)}
  ELSE {UseContentDetail(ActiveOrgId, Id(route))}

NextSession ==
  \/ \E e \in Users : LoginStart(e)
  \/ \E o \in Orgs : LoginOk(o)
  \/ LoginFail
  \/ LogoutStart
  \/ \E t \in BOOLEAN : LogoutDone(t)
  \/ RefreshStart
  \/ RefreshOk
  \/ RefreshFail
  \/ AutoCheck
  \/ AutoOk
  \/ AutoFail
  \/ InitAnon
  \/ InitFetch
  \/ \E u \in Users : InitOk(u)
  \/ InitFail
  \/ TokenExpire
  \/ Api401First
  \/ Api401Second
  \/ ApiOk

NextOrg ==
  \/ \E e \in Users : LoginStart(e)
  \/ \E o \in Orgs : LoginOk(o)
  \/ LoginFail
  \/ LogoutStart
  \/ \E t \in BOOLEAN : LogoutDone(t)
  \/ \E org \in OrgValues : SetOrganization(org)
  \/ \E org \in OrgValues : SetCurrentOrganization(org)
  \/ LoadOrganizationsStart
  \/ \E list \in OrgLists : LoadOrganizationsOk(list)
  \/ LoadOrganizationsFail
  \/ \E o \in Orgs, d \in Revs : UpdateOrganizationStart(o, d)
  \/ UpdateOrganizationOk
  \/ UpdateOrganizationFail

NextCache ==
  \/ \E e \in Users : LoginStart(e)
  \/ \E o \in Orgs : LoginOk(o)
  \/ LoginFail
  \/ LogoutStart
  \/ \E t \in BOOLEAN : LogoutDone(t)
  \/ \E o \in Orgs : SetOrganization(ServerOrg(o))
  \/ \E q \in MountedQueries(ActiveOrgId) : QueryStart(q)
  \/ \E r \in inflight : QueryOk(r)
  \/ \E r \in inflight, s \in Statuses : QueryFail(r, s)
  \/ \E e \in cache : BecomeStale(e)
  \/ \E e \in cache : CacheGc(e)

NextLogout ==
  \/ \E e \in Users : LoginStart(e)
  \/ \E o \in Orgs : LoginOk(o)
  \/ LoginFail
  \/ LogoutStart
  \/ \E t \in BOOLEAN : LogoutDone(t)
  \/ LoadOrganizationsStart
  \/ \E list \in OrgLists : LoadOrganizationsOk(list)
  \/ LoadOrganizationsFail
  \/ LoadUsageStatsStart
  \/ LoadUsageStatsOk
  \/ LoadUsageStatsFail
  \/ QueryStart(UseStyles(ActiveOrgId))
  \/ \E r \in inflight : QueryOk(r)
  \/ \E r \in inflight, s \in Statuses : QueryFail(r, s)

\* the style mutation hooks over the cache, in one session (the user logs
\* in from the login page, that is, when logged out)
NextStyleMutation ==
  \/ \E e \in Users : ~isAuthenticated /\ LoginStart(e)
  \/ \E o \in Orgs : LoginOk(o)
  \/ LoginFail
  \/ \E q \in StyleQueries(ActiveOrgId) : QueryStart(q)
  \/ \E r \in inflight : QueryOk(r)
  \/ \E r \in inflight, s \in Statuses : QueryFail(r, s)
  \/ \E e \in cache : BecomeStale(e)
  \/ \E k \in StyleKinds : \E id \in HookIds(k) : Mutate(k, id)
  \/ \E k \in StyleKinds : MutationOk(k)
  \/ \E s \in Statuses : MutationAttemptFail(s)
  \/ \E s \in Statuses : MutationFail(s)

\* useEditContent over the cache, in one session
NextEdit ==
  \/ \E e \in Users : ~isAuthenticated /\ LoginStart(e)
  \/ \E o \in Orgs : LoginOk(o)
  \/ LoginFail
  \/ \E q \in EditQueries(ActiveOrgId) : QueryStart(q)
  \/ \E r \in inflight : QueryOk(r)
  \/ \E r \in inflight, s \in Statuses : QueryFail(r, s)
  \/ \E e \in cache : BecomeStale(e)
  \/ \E id \in HookIds("edit") : Mutate("edit", id)
  \/ MutationOk("edit")
  \/ \E s \in Statuses : MutationAttemptFail(s)
  \/ \E s \in Statuses : MutationFail(s)

\* useDeleteContent over the cache, in one session
NextDelete ==
  \/ \E e \in Users : ~isAuthenticated /\ LoginStart(e)
  \/ \E o \in Orgs : LoginOk(o)
  \/ LoginFail
  \/ \E q \in DeleteQueries(ActiveOrgId) : QueryStart(q)
  \/ \E r \in inflight : QueryOk(r)
  \/ \E r \in inflight, s \in Statuses : QueryFail(r, s)
  \/ \E e \in cache : BecomeStale(e)
  \/ \E id \in HookIds("deleteContent") : Mutate("deleteContent", id)
  \/ MutationOk("deleteContent")
  \/ \E s \in Statuses : MutationAttemptFail(s)
  \/ \E s \in Statuses : MutationFail(s)

\* generations from the form over the cache, in one session
NextGenerate ==
  \/ \E e \in Users : ~isAuthenticated /\ LoginStart(e)
  \/ \E o \in Orgs : LoginOk(o)
  \/ LoginFail
  \/ \E q \in GenerateQueries(ActiveOrgId) : QueryStart(q)
  \/ \E r \in inflight : QueryOk(r)
  \/ \E r \in inflight, s \in Statuses : QueryFail(r, s)
  \/ \E e \in cache : BecomeStale(e)
  \/ HandleSubmit(ValidSubmission)
  \/ \E s \in Statuses : MutationAttemptFail(s)
  \/ \E c \in NewContents : GenerateOk(c)
  \/ \E s \in Statuses : GenerateFail(s)
  \/ OpenNewContent

\* the generation form with the retries of its query and its mutation
NextWorkflow ==
  \/ \E e \in Users : ~isAuthenticated /\ LoginStart(e)
  \/ \E o \in Orgs : LoginOk(o)
  \/ LoginFail
  \/ \E q \in PageQueries : QueryStart(q)
  \/ \E r \in inflight : QueryOk(r)
  \/ \E r \in inflight, s \in Statuses : QueryAttemptFail(r, s)
  \/ \E r \in inflight, s \in Statuses : QueryFail(r, s)
  \/ \E e \in cache : BecomeStale(e)
  \/ \E d \in FormInputs : HandleSubmit(d)
  \/ \E s \in Statuses : MutationAttemptFail(s)
  \/ \E c \in NewContents : GenerateOk(c)
  \/ \E s \in Statuses : GenerateFail(s)
  \/ OpenNewContent

\* the generation form and ReferenceArticles.handleDelete (useDeleteFile)
\* over the styles' reference articles, in one session
NextReferences ==
  \/ \E e \in Users : ~isAuthenticated /\ LoginStart(e)
  \/ \E o \in Orgs : LoginOk(o)
  \/ LoginFail
  \/ QueryStart(UseStyles(ActiveOrgId))
  \/ \E r \in inflight : QueryOk(r)
  \/ \E r \in inflight, s \in Statuses : QueryFail(r, s)
  \/ \E d \in FormInputs : HandleSubmit(d)
  \/ \E c \in NewContents : GenerateOk(c)
  \/ \E s \in Statuses : GenerateFail(s)
  \/ OpenNewContent
  \/ \E id \in RefIds : Mutate("deleteFile", id)
  \/ MutationOk("deleteFile")
  \/ \E s \in Statuses : MutationAttemptFail(s)
  \/ \E s \in Statuses : MutationFail(s)

\* the content editor page over an existing content, with the edit hook,
\* in one session
NextEditor ==
  \/ \E e \in Users : ~isAuthenticated /\ LoginStart(e)
  \/ \E o \in Orgs : LoginOk(o)
  \/ LoginFail
  \/ \E q \in PageQueries : QueryStart(q)
  \/ \E r \in inflight : QueryOk(r)
  \/ \E r \in inflight, s \in Statuses : QueryFail(r, s)
  \/ \E e \in cache : BecomeStale(e)
  \/ \E c \in Contents : OpenContent(c)
  \/ OpenNewContent
  \/ HandleSave
  \/ \E p \in EditPrompts : HandleAIAssist(p)
  \/ \E c \in Contents : Mutate("edit", Id(c))
  \/ MutationOk("edit")
  \/ \E s \in Statuses : MutationAttemptFail(s)
  \/ \E s \in Statuses : MutationFail(s)

\* generations, edits and the refetches that their invalidations cause of
\* the queries that hold a content's status, in one session; a request
\* fails with 400 (not retried) or 500 (retried)
NextStatus ==
  \/ \E e \in Users : ~isAuthenticated /\ LoginStart(e)
  \/ \E o \in Orgs : LoginOk(o)
  \/ LoginFail
  \/ \E q \in StatusQueries(ActiveOrgId) : QueryStart(q)
  \/ \E r \in inflight : QueryOk(r)
  \/ \E r \in inflight : QueryFail(r, 400)
  \/ HandleSubmit(ValidSubmission)
  \/ \E c \in NewContents : GenerateOk(c)
  \/ \E s \in {400, 500} : GenerateFail(s)
  \/ OpenNewContent
  \/ \E c \in NewContents : Mutate("edit", Id(c))
  \/ MutationOk("edit")
  \/ MutationAttemptFail(500)
  \/ \E s \in {400, 500} : MutationFail(s)

\* hooks that are not namespaced by an organization, mounted on the pages
\* of a session; the entry's origin is the organization active when the
\* request was sent
UseUserProfile == [key |-> UserProfileKey, org |-> ActiveOrgId]
UseOrganizations == [key |-> OrganizationListKey, org |-> ActiveOrgId]

\* one session that switches between organizations and fills the cache
\* with the user profile, the organization list and each organization's
\* style list and content detail; then one mutation of any hook, for the
\* organization active when it is issued
FrameQueries ==
  {UseUserProfile, UseOrganizations, UseStyles(ActiveOrgId)}
    \cup {UseContentDetail(ActiveOrgId, Id(c)) : c \in Contents}

Unmutated == mutation = NoMutation /\ mutationResult = NoResult

NextFrame ==
  \/ \E e \in Users : ~isAuthenticated /\ LoginStart(e)
  \/ \E o \in Orgs : LoginOk(o)
  \/ LoginFail
  \/ \E o \in Orgs : SetOrganization(ServerOrg(o))
  \/ \E q \in FrameQueries : Unmutated /\ QueryStart(q)
  \/ \E r \in inflight : QueryOk(r)
  \/ \E k \in HookKinds : \E id \in HookIds(k) : Unmutated /\ Mutate(k, id)
  \/ \E k \in HookKinds : MutationOk(k)
  \/ MutationFail(400)
  \/ Unmutated /\ HandleSubmit(ValidSubmission)
  \/ \E c \in NewContents : GenerateOk(c)
  \/ GenerateFail(400)

\* requests reaching the middleware, and the redirects followed
NextMiddleware ==
  \/ \E p \in Paths, a \in CookieValues, o \in CookieValues,
        h \in HeaderValues : Request(p, a, o, h)
  \/ FollowRedirect

\* the style pages: the new page and the edit page of a style, one session
StyleFormQueries == {UseStyle(ActiveOrgId, Id(st)) : st \in Styles}

NextStyleForm ==
  \/ \E e \in Users : ~isAuthenticated /\ LoginStart(e)
  \/ \E o \in Orgs : LoginOk(o)
  \/ LoginFail
  \/ \E q \in StyleFormQueries : QueryStart(q)
  \/ \E r \in inflight : QueryOk(r)
  \/ \E r \in inflight : QueryFail(r, 400)
  \/ \E id \in {""} \cup {Id(st) : st \in Styles},
        n \in StyleNames, d \in StyleDescriptions : OpenStyleForm(id, n, d)
  \/ \E n \in StyleNames, d \in StyleDescriptions : StyleFormType(n, d)
  \/ \E fs \in FileSelections : handleFilesChange(fs)
  \/ StyleFormCancel
  \/ StyleFormSubmit
  \/ \E fid \in FileIdValues : UploadOk(fid)
  \/ StyleSaveOk
  \/ MutationAttemptFail(500)
  \/ \E s \in {400, 500} : StyleRequestFail(s)

\* the style analysis display, rendered with any score
NextAnalysis == \E s \in Scores : RenderStyleAnalysis(s)

Spec == Init /\ [][NextSession]_vars
SpecOrg == Init /\ [][NextOrg]_vars
SpecCache == Init /\ [][NextCache]_vars
SpecLogout == Init /\ [][NextLogout]_vars
SpecStyleMutation == Init /\ [][NextStyleMutation]_vars
SpecEdit == Init /\ [][NextEdit]_vars
SpecDelete == Init /\ [][NextDelete]_vars
SpecGenerate == Init /\ [][NextGenerate]_vars
SpecWorkflow == Init /\ [][NextWorkflow]_vars
SpecReferences == Init /\ [][NextReferences]_vars
SpecEditor == Init /\ [][NextEditor]_vars
SpecStatus == Init /\ [][NextStatus]_vars
SpecAnalysis == Init /\ [][NextAnalysis]_vars
SpecStyleForm == Init /\ [][NextStyleForm]_vars
SpecFrame == Init /\ [][NextFrame]_vars
SpecMiddleware == Init /\ [][NextMiddleware]_vars

\* Every promise in flight settles (the transport answers or times out) and
\* the event loop then runs its continuation.  Nothing obliges the user or a
\* timer to start an operation.
Fairness ==
  /\ WF_vars(LoginFail \/ \E o \in Orgs : LoginOk(o))
  /\ WF_vars(\E t \in BOOLEAN : LogoutDone(t))
  /\ WF_vars(RefreshOk \/ RefreshFail)
  /\ WF_vars(AutoOk \/ AutoFail)
  /\ WF_vars(InitFail \/ \E u \in Users : InitOk(u))
  /\ WF_vars(apiPc = "retrying" /\ (Api401Second \/ ApiOk))

FairSpec == Spec /\ Fairness

\* ------------------------------------------------------------- properties
AuthenticatedState == isAuthenticated /\ user # NoUser
AnonymousState ==
  user = NoUser /\ organization = NoOrg /\ isAuthenticated = FALSE

\* the step in which logout()'s promise settles
LogoutCompletes == logoutPc = "pending" /\ logoutPc' = "idle"

\* C1: whenever logout() completes, whether authService.logout() resolved or
\* threw, the auth store is cleared (user = null, organization = null,
\* isAuthenticated = false, isLoading = false, error = null) and logout()'s
\* promise resolves: the server error does not reach the caller.
C1_LogoutClearsStore ==
  [][LogoutCompletes =>
       /\ user' = NoUser
       /\ organization' = NoOrg
       /\ isAuthenticated' = FALSE
       /\ isLoading' = FALSE
       /\ error' = NoError
       /\ logoutResult' = "resolved"]_vars

\* C1 witness: a logout whose server call threw has completed on a session
\* that a login had established; the store is cleared and the promise
\* resolved.
C1_Witness ==
  /\ loginResult = "resolved"
  /\ logoutServer = "threw"
  /\ logoutResult = "resolved"
  /\ AnonymousState

\* C3: a failed login writes only isLoading = false and a non-null error:
\* user, organization and isAuthenticated keep the values they had (neither
\* the start of login nor its catch block touches them), and the error is
\* rethrown to the caller.
C3_FailedLoginKeepsSession ==
  [][/\ (loginPc = "idle" /\ loginPc' = "pending") =>
          UNCHANGED <<user, organization, isAuthenticated>>
     /\ (loginPc = "pending" /\ loginPc' = "idle" /\ loginResult' # "resolved")
          => /\ UNCHANGED <<user, organization, isAuthenticated>>
             /\ error' # NoError
             /\ isLoading' = FALSE
             /\ loginResult' = "rejected"]_vars

\* C3 witness: a login failed while a session existed; the session is intact
\* and the error is set.
C3_Witness ==
  /\ loginResult = "rejected"
  /\ error = "login"
  /\ isLoading = FALSE
  /\ AuthenticatedState
  /\ organization # NoOrg

\* C4: after any failed token refresh (store action or periodic check) the
\* client eventually is logged out: isAuthenticated = false and user = null.
C4_FailedRefreshLogsOut ==
  tokenDead ~> (isAuthenticated = FALSE /\ user = NoUser)

C6_AuthenticatedWhateverFetch ==
  [][(initPc = "fetching" /\ initPc' = "idle") => isAuthenticated' = TRUE]_vars

\* C6 (amended): an initialize() that found a live token only sets isLoading
\* until the current-user fetch settles; it marks the session authenticated
\* when the fetch succeeds, and when the fetch fails it makes the session
\* anonymous and clears the persisted auth data.
C6_InitializeFollowsFetch ==
  [][/\ (initPc = "idle" /\ initPc' = "fetching") =>
          /\ isLoading' = TRUE
          /\ UNCHANGED <<user, organization, isAuthenticated>>
     /\ (initPc = "fetching" /\ initPc' = "idle") =>
          /\ initResult' \in {"authenticated", "fetch_failed"}
          /\ isLoading' = FALSE
          /\ initResult' = "authenticated" => AuthenticatedState'
          /\ initResult' = "fetch_failed" =>
               (AnonymousState' /\ token' = "none" /\ orgData' = NoOrg)]_vars

\* C6 witness: the current-user fetch of an initialize() failed on a session
\* that a login had established: the session is anonymous, the token gone.
C6_Witness ==
  /\ loginResult = "resolved"
  /\ logoutResult = "none"
  /\ initResult = "fetch_failed"
  /\ AnonymousState
  /\ token = "none"

\* C7: every completion of initialize() leaves isLoading = false and the
\* store either authenticated (isAuthenticated with a user) or anonymous
\* (user = null, organization = null, isAuthenticated = false); without a
\* live token the result is anonymous and the persisted auth data is
\* cleared.
C7_InitializeTerminal ==
  [][/\ (InitAnon \/ InitFail \/ \E u \in Users : InitOk(u)) =>
          /\ isLoading' = FALSE
          /\ AuthenticatedState' \/ AnonymousState'
     /\ (initPc = "idle" /\ ~HasLiveToken /\ initPc' = "idle"
           /\ initResult' = "anonymous" /\ InitAnon) =>
          (AnonymousState' /\ token' = "none" /\ orgData' = NoOrg)]_vars

\* C7 witness: initialize() ran on a session whose token had expired: the
\* store is anonymous and the persisted auth data is gone.
C7_Witness ==
  /\ loginResult = "resolved"
  /\ logoutResult = "none"
  /\ initResult = "anonymous"
  /\ AnonymousState
  /\ isLoading = FALSE
  /\ token = "none"
  /\ orgData = NoOrg

\* C2: whenever logout() completes, nothing of the previous session is left
\* on the client: the query cache is empty and the organization store has
\* currentOrganization = null, organizations = [], members = [] and
\* usageStats = null.
C2_LogoutClearsCachedEntities ==
  [][LogoutCompletes =>
       /\ cache' = {}
       /\ currentOrganization' = NoOrg
       /\ organizations' = <<>>
       /\ members' = 0
       /\ usageStats' = 0]_vars

\* the step in which setOrganization replaces the active organization by
\* another one
SwitchesOrganization ==
  /\ \E org \in OrgValues : SetOrganization(org)
  /\ organization # NoOrg
  /\ organization'.id # organization.id

\* C8: when setOrganization switches from organization O1 to another one,
\* every cache entry whose key is namespaced by O1 is stale or removed
\* afterwards.
C8_SwitchInvalidatesPrevious ==
  [][SwitchesOrganization =>
       \A e \in cache' :
         KeyOrg(e.key) = Id(organization.id) => e.status = "stale"]_vars

Quiescent ==
  /\ loginPc = "idle"
  /\ logoutPc = "idle"
  /\ loadOrgsPc = "idle"
  /\ updateOrgPc = NoUpdate

\* C10: whenever no operation is in flight, the auth store's organization
\* and the organization store's currentOrganization are the same
\* organization or both null.
C10_SingleActiveOrganization ==
  Quiescent => organization.id = currentOrganization.id

\* ------------------------------------------------- invalidation contract
StyleIds == {Id(s) : s \in Styles}
\* a style-list key of organization orgId, with any filter descriptor
IsStyleListKey(k, orgId) ==
  /\ IsPrefix(StyleListKey(orgId), k)
  /\ Len(k) = 3 \/ (Len(k) = 4 /\ k[4] \notin StyleIds)
\* a content-list key of organization orgId, with any filter descriptor
IsContentListKeyOf(k, orgId) == IsContentListKey(k) /\ k[2] = orgId

\* a step in which a mutation (not) of the given kinds fails, for good or
\* before a retry
FailsOf(kinds) ==
  /\ mutation.kind \in kinds
  /\ \E s \in Statuses :
       MutationFail(s) \/ GenerateFail(s) \/ MutationAttemptFail(s)

\* C11: when a create, update or delete of a style of organization O
\* succeeds, every cached style-list entry of O is stale and the detail
\* entry of the style is stale or gone; when it fails, the cache is left as
\* it was.
C11_StyleMutationInvalidates ==
  [][/\ (\E k \in StyleKinds : MutationOk(k)) =>
          \A e \in cache' :
            (IsStyleListKey(e.key, mutation.org)
               \/ e.key = StyleDetailKey(mutation.org, mutation.id))
              => e.status = "stale"
     /\ FailsOf(StyleKinds) => cache' = cache]_vars

\* C11 witness: an update of a style succeeded with the style list (with
\* its filter) and the style's detail cached; both are stale.
C11_Witness ==
  /\ mutationResult = [kind |-> "updateStyle", outcome |-> "success"]
  /\ Has(UseStyles(ActiveOrgId).key)
  /\ Entry(UseStyles(ActiveOrgId).key).status = "stale"
  /\ \E s \in Styles :
       /\ Has(StyleDetailKey(ActiveOrgId, Id(s)))
       /\ Entry(StyleDetailKey(ActiveOrgId, Id(s))).status = "stale"

\* C12: when a generation in organization O succeeds, every cached
\* content-list entry of O and the usage entry of O are stale; a failed
\* generation leaves the cache as it was.
C12_GenerationInvalidates ==
  [][/\ (\E c \in NewContents : GenerateOk(c)) =>
          \A e \in cache' :
            (IsContentListKeyOf(e.key, mutation.org)
               \/ e.key = OrganizationUsageKey(mutation.org))
              => e.status = "stale"
     /\ FailsOf({"generate"}) => cache' = cache]_vars

\* C12 witness: a generation succeeded with the content list and the usage
\* statistics cached; both are stale.
C12_Witness ==
  /\ mutationResult = [kind |-> "generate", outcome |-> "success"]
  /\ route \in NewContents
  /\ Has(UseContent(ActiveOrgId).key)
  /\ Entry(UseContent(ActiveOrgId).key).status = "stale"
  /\ Has(OrganizationUsageKey(ActiveOrgId))
  /\ Entry(OrganizationUsageKey(ActiveOrgId)).status = "stale"

\* C13: when an edit of content X of organization O succeeds, the detail
\* entry of X, the iterations entry of X and the usage entry of O are stale;
\* a failed edit leaves the cache as it was.
C13_EditInvalidates ==
  [][/\ MutationOk("edit") =>
          \A e \in cache' :
            e.key \in {ContentDetailKey(mutation.org, mutation.id),
                       ContentIterationsKey(mutation.org, mutation.id),
                       OrganizationUsageKey(mutation.org)}
              => e.status = "stale"
     /\ FailsOf({"edit"}) => cache' = cache]_vars

\* C13 witness: an edit succeeded with the content's detail, its iterations
\* and the usage statistics cached; all three are stale.
C13_Witness ==
  /\ mutationResult = [kind |-> "edit", outcome |-> "success"]
  /\ \E c \in Contents :
       /\ Has(ContentDetailKey(ActiveOrgId, Id(c)))
       /\ Entry(ContentDetailKey(ActiveOrgId, Id(c))).status = "stale"
       /\ Has(ContentIterationsKey(ActiveOrgId, Id(c)))
       /\ Entry(ContentIterationsKey(ActiveOrgId, Id(c))).status = "stale"
  /\ Has(OrganizationUsageKey(ActiveOrgId))
  /\ Entry(OrganizationUsageKey(ActiveOrgId)).status = "stale"

C15_ReadAfterWriteSeesNewData ==
  [][(\E c \in NewContents : GenerateOk(c)) =>
       \A q \in GenerateQueries(mutation.org) :
         (IsContentListKeyOf(q.key, mutation.org)
            /\ \E e \in cache' : e.key = q.key)
           => QueryValue(q)' = ServerData(q.key)']_vars

\* C16: when a generation succeeds, the returned content is in the cache
\* under its content-detail key.
C16_GeneratedContentCached ==
  [][\A c \in NewContents :
       GenerateOk(c) =>
         \E e \in cache' : e.key = ContentDetailKey(mutation.org, Id(c))]_vars

\* ------------------------------------------------- generation workflow
\* C17: a submission of the generation form sends at most one request to
\* the network.
C17_NoAutomaticResend == requestsSent <= 1

\* C18 as stated: at most 3 attempts of a failing read and at most 2 of a
\* failing mutation.
C18_AttemptsAsStated ==
  /\ \A r \in inflight : r.failureCount + 1 <= 3
  /\ mutation.failureCount + 1 <= 2

\* C18: a failing read is attempted at most 4 times in total (3 retries), a
\* failing mutation at most 3 times (2 retries), and no attempt follows a
\* failure whose status is in 400..499.
C18_RetryPolicy ==
  /\ [](/\ \A r \in inflight : r.failureCount + 1 <= 4
        /\ mutation.failureCount + 1 <= 3)
  /\ [][\A s \in Statuses :
          (s >= 400 /\ s < 500) =>
            /\ ~MutationAttemptFail(s)
            /\ \A r \in inflight : ~QueryAttemptFail(r, s)]_vars

\* C18 witness: the fourth attempt of a read is in flight.
C18_Witness == \E r \in inflight : r.failureCount = 3

\* the workflow states of a generation draft
Composing == route = 0 /\ genStatus \in {"idle", "error"}
Generating == route = 0 /\ genStatus = "pending"
Ready == route \in NewContents /\ genStatus = "success"

ValidFormData(d) ==
  /\ d.brief >= 10
  /\ d.style_profile_id # ""
  /\ d.max_tokens \in 100..4000
  /\ d.temperature \in 0..20

\* C20: a generation request is in flight only with valid form data, and a
\* submission of invalid data has sent nothing to the network.
C20_InvalidNeverSent ==
  /\ mutation.kind = "generate" => ValidFormData(mutation.data)
  /\ ~ValidFormData(formValues) => requestsSent = 0 /\ mutation = NoMutation

\* C20 witness: a submission with an empty brief and no style was rejected
\* by the resolver and nothing was sent.
C20_Witness ==
  /\ formErrors
  /\ formValues.brief = 0
  /\ formValues.style_profile_id = ""
  /\ requestsSent = 0
  /\ mutation = NoMutation

\* C26: once logout() has completed the session stays logged out
\* (isAuthenticated = false, user = null) until a later login succeeds; an
\* initialize() that started before the logout does not set isAuthenticated
\* back to true.
C26_LogoutStaysLoggedOut ==
  loggedOut => (~isAuthenticated /\ user = NoUser)

\* the style a style_profile_id names
StyleOf(id) == CHOOSE st \in Styles : Id(st) = id

\* C21: a generation request is never sent for a style that has no
\* reference article, however the style came to have none (the last
\* reference deleted after the style was created included).
C21_NoGenerationWithoutReferences ==
  [][(mutation.kind # "generate" /\ mutation'.kind = "generate") =>
       styleRefs[OrgOf(mutation'.org)]
                [StyleOf(mutation'.data.style_profile_id)] # {}]_vars

\* C22: an edit prompt submitted from Ready is sent as an edit request for
\* the shown content that carries the prompt, so that its success appends
\* the iteration recording the prompt (status edited) and its failure
\* returns to Ready with the error attached.
C22_EditPromptIsSubmitted ==
  [][(consoleLog' # consoleLog /\ consoleLog'.handler = "handleAIAssist") =>
       /\ mutation'.kind = "edit"
       /\ mutation'.org = ActiveOrgId
       /\ mutation'.id = Id(route)
       /\ mutation'.data = [edit_prompt |-> consoleLog'.arg]]_vars

\* the status a cache entry holds for content c ("none": the entry does not
\* hold c)
HeldStatus(e, c) ==
  IF \E p \in e.statuses : p[1] = c
  THEN (CHOOSE p \in e.statuses : p[1] = c)[2]
  ELSE "none"

BandOfText ==
  CASE confidenceText = "text-green-600" -> "high"
    [] confidenceText = "text-yellow-600" -> "medium"
    [] confidenceText = "text-red-600" -> "low"
    [] OTHER -> "none"
BandOfBar ==
  CASE confidenceBar = "bg-green-600" -> "high"
    [] confidenceBar = "bg-yellow-600" -> "medium"
    [] confidenceBar = "bg-red-600" -> "low"
    [] OTHER -> "none"
BandOfCaption ==
  CASE confidenceCaption = "high confidence" -> "high"
    [] confidenceCaption = "medium confidence" -> "medium"
    [] confidenceCaption = "low confidence" -> "low"
    [] OTHER -> "none"

\* C24: for every confidence score s in [0, 1] the display shows the band
\* high iff s >= 0.8, medium iff 0.6 <= s < 0.8 and low iff s < 0.6, and
\* the text colour, the bar colour and the caption show the same band.
C24_ConfidenceBands ==
  confidence_score # NoScore =>
    /\ BandOfText = "high" <=> confidence_score >= HighConfidence
    /\ BandOfText = "medium" <=>
         (confidence_score >= MediumConfidence
            /\ confidence_score < HighConfidence)
    /\ BandOfText = "low" <=> confidence_score < MediumConfidence
    /\ BandOfBar = BandOfText
    /\ BandOfCaption = BandOfText

\* C24 witness: a score on the upper threshold is rendered in the high band
C24_Witness ==
  /\ confidence_score = HighConfidence
  /\ BandOfText = "high" /\ BandOfBar = "high" /\ BandOfCaption = "high"

\* C25: in edit mode, a submit of the style form with a name of at least 2
\* characters and any description sends one update-style request carrying
\* that name and description, and no upload or create request.
C25_EditSubmitSendsUpdate ==
  [][(/\ submitCount' = submitCount + 1
      /\ styleId # NoStyleForm /\ isEditing
      /\ Len(styleFormValues.name) >= MinNameLength)
       => /\ mutation' = UpdateRequest(styleFormValues)
          /\ styleLog' = <<Sent(mutation')>>]_vars

IsUpload(e) == e.kind = "uploadFile"
IsCreate(e) == e.kind = "createStyle"

\* C27: when a style is created, the selected files are uploaded one at a
\* time in their selected order (an upload is sent only after every
\* earlier one succeeded), the create-style request is sent only after
\* every upload succeeded and carries the returned file ids in the order
\* of the files, and after a failed upload no create-style request is sent
\* and onSuccess is not called.
C27_UploadsThenCreate ==
  (styleLog # <<>> /\ styleLog[1].kind # "updateStyle") =>
    LET files == onSubmitData.reference_articles
        uploads == SelectSeq(styleLog, IsUpload)
        creates == SelectSeq(styleLog, IsCreate)
    IN  /\ Len(uploads) <= Len(files)
        /\ \A i \in DOMAIN uploads :
             /\ styleLog[i] = uploads[i]
             /\ uploads[i].data.file = files[i]
             /\ i < Len(uploads) => uploads[i].outcome = "success"
        /\ Len(creates) <= 1
        /\ creates # <<>> =>
             /\ Len(uploads) = Len(files)
             /\ \A i \in DOMAIN uploads : uploads[i].outcome = "success"
             /\ creates[1].data.reference_article_ids =
                  [i \in 1..Len(files) |-> uploads[i].file_id]
        /\ (\E i \in DOMAIN uploads : uploads[i].outcome = "error") =>
             creates = <<>> /\ styleFormResult # "success"
        /\ styleFormResult = "success" =>
             creates # <<>> /\ creates[1].outcome = "success"

\* C27 witness: two different files were uploaded, the server returned two
\* different ids, the style was created and onSuccess was called
C27_Witness ==
  /\ styleFormResult = "success"
  /\ Len(styleLog) = 3
  /\ styleLog[3].kind = "createStyle"
  /\ styleLog[1].data.file # styleLog[2].data.file
  /\ styleLog[1].file_id # styleLog[2].file_id

\* the cache keys namespaced by organization orgId
OrgPrefix(orgId) == OrganizationDetailKey(orgId)

\* C28: a successful style, content or file mutation issued for
\* organization O marks stale or removes only cache entries whose key
\* begins with ['organizations', O]; every other entry (other
\* organizations', the user profile, the organization list) is left as it
\* was, and no entry is added.
C28_MutationTouchesOwnOrgOnly ==
  [][(/\ mutation.kind # "none"
      /\ mutation' = NoMutation
      /\ mutationResult'.outcome = "success")
       => /\ \A e \in cache :
               ~IsPrefix(OrgPrefix(mutation.org), e.key) => e \in cache'
          /\ \A e \in cache' :
               \E d \in cache :
                 /\ d.key = e.key
                 /\ \/ e = d
                    \/ /\ IsPrefix(OrgPrefix(mutation.org), e.key)
                       /\ e = [d EXCEPT !.status = "stale"]]_vars

\* C28 witness: a style was deleted in organization 1 while the style
\* lists of both organizations, the user profile and the organization list
\* were cached: only organization 1's style list went stale
C28_Witness ==
  /\ mutationResult = [kind |-> "deleteStyle", outcome |-> "success"]
  /\ Has(UseStyles(Id(1)).key) /\ Entry(UseStyles(Id(1)).key).status = "stale"
  /\ Has(UseStyles(Id(2)).key) /\ Entry(UseStyles(Id(2)).key).status = "fresh"
  /\ Has(UserProfileKey) /\ Entry(UserProfileKey).status = "fresh"
  /\ Has(OrganizationListKey) /\ Entry(OrganizationListKey).status = "fresh"

\* the request carries no access token: no access_token cookie value and
\* no Authorization header value
NoAccessToken(req) ==
  ~Truthy(req.access_token) /\ ~Truthy(req.authorization)

C30_RedirectTargetIsNotRedirected ==
  response.type = "redirect" =>
    middleware([request EXCEPT !.pathname = response.pathname]).type
      # "redirect"
====
